---- MODULE Spec2Model ----
(***************************************************************************)
(* State-machine model of the STXL camera driver:                          *)
(*   stxldriver/camera.py  Camera.write_setup, Camera._build_query,        *)
(*                         Camera.start_exposure, Camera.save_exposure     *)
(*                         Camera.reboot                                   *)
(*   stxldriver/parse.py   FormParser                                      *)
(*   calibrate.py          initialize, take_exposure, the exposure loops   *)
(* The device behind the HTTP interface is modelled as an environment:     *)
(* devK = 0 is an arbitrary device and network (a write may leave any      *)
(* configuration behind, any request may fail); devK = k >= 1 is a device  *)
(* that silently drops writes and applies only every k-th one.             *)
(***************************************************************************)
EXTENDS Integers, Sequences, FiniteSets, TLC

----------------------------------------------------------------------------
(* Bounds *)

MaxRetries == 3      \* largest max_retries passed to write_setup
MaxK == 3            \* largest drop period of the dropping device
MaxExptime == 1      \* largest exptime passed to take_exposure, in seconds
MaxTimeout == 2      \* largest timeout passed to take_exposure, in seconds
MaxLag == 1          \* longest time the polls of one tick take, in seconds
MaxSamples == 3      \* largest num_temperature_samples passed to initialize
MaxReadings == 4     \* most temperature readings of one cooldown
MaxExposures == 1    \* largest --nzero, --ndark, --nflat of calibrate
MaxTags == 4         \* most tags of a document fed to FormParser
MaxWait == 2         \* largest max_wait given to set_filter

----------------------------------------------------------------------------
(* Python values.  A value is its type and its canonical text: str(value). *)

None == <<>>                               \* an empty cache slot
ValueErr == [t |-> "ValueError", v |-> ""]
Bool(b) == IF b THEN "True" ELSE "False"   \* a Python bool
Unbound == "unbound"                       \* a local not assigned yet

I(s) == [t |-> "int", v |-> s]
F(s) == [t |-> "float", v |-> s]
S(s) == [t |-> "str", v |-> s]

IntLits == {"0", "1"}
FloatLits == {"0.0", "1.0"}

\* type(value)(text): int("1.0") raises, float("1") is 1.0, str is the text.
Convert(t, s) ==
    CASE t = "str" -> S(s)
      [] t = "int" -> IF s \in IntLits THEN I(s) ELSE ValueErr
      [] t = "float" -> IF s \in IntLits THEN F(s \o ".0")
                        ELSE IF s \in FloatLits THEN F(s) ELSE ValueErr

\* '{0}'.format(value)
Format(val) == val.v

----------------------------------------------------------------------------
(* Forms: ordered mappings name -> value, as FormParser builds them. *)

SetupFields == <<"CoolerState", "CCDTemperatureSetpoint">>
SetupFieldSet == {SetupFields[i] : i \in 1..Len(SetupFields)}
BogusKey == "Bogus"
DevStrs == {"0", "1", "1.0"}

\* name[0] == '_' for the names of the model
Underscore(name) == name \in {"_CoolerState_values"}

Names(form) == {form[i].name : i \in 1..Len(form)}
Lookup(form, name) == (CHOOSE i \in 1..Len(form) : form[i].name = name)
Get(form, name) == form[Lookup(form, name)].value

\* The form _read_form returns for the setup page of a device holding dev:
\* the radio group CoolerState contributes its allowed values entry first.
SetupForm(dev) ==
    <<[name |-> "_CoolerState_values", value |-> "0,1"]>> \o
    [i \in 1..Len(SetupFields) |->
        [name |-> SetupFields[i], value |-> dev[SetupFields[i]]]]

\* Faulty variant: the entries of the allowed values are kept.
Visible_All(form) ==
    [k \in 1..Len(form) |-> [name |-> form[k].name,
                             value |-> S(form[k].value)]]
\* line 74: the fields whose name does not start with an underscore
RECURSIVE Visible(_)
Visible(form) ==
    IF form = <<>> THEN <<>>
    ELSE IF Underscore(Head(form).name) THEN Visible(Tail(form))
    ELSE <<[name |-> Head(form).name, value |-> S(Head(form).value)]>>
             \o Visible(Tail(form))

\* Camera._build_query: params (ordered, typed values) and the query string,
\* or ValueErr when a keyword is not a field of the defaults.
Params(defaults, kwargs) ==
    LET base == Visible(defaults)
    IN [i \in 1..Len(base) |->
           IF base[i].name \in DOMAIN kwargs
           THEN [name |-> base[i].name, value |-> kwargs[base[i].name]]
           ELSE base[i]]

QueryOf(params) ==
    [i \in 1..Len(params) |->
        [name |-> params[i].name, value |-> Format(params[i].value)]]

\* Faulty variant: an unknown name is not rejected.
BuildQueryFails_Never(defaults, kwargs) == FALSE
\* lines 75-77
BuildQueryFails(defaults, kwargs) ==
    \E name \in DOMAIN kwargs : name \notin Names(Visible(defaults))

----------------------------------------------------------------------------
(* State *)

VARIABLES
    setup,            \* Camera.setup: None or the cached CameraSetup form
    exposure_config,  \* Camera.exposure_config: None or the cached form
    devSetup,         \* the device's setup page: field -> text
    devK,             \* 0: arbitrary device; k >= 1: applies every k-th write
    devCount,         \* writes received since the last applied one
    pc,               \* position of the running operation: "idle" if none,
                      \* "done" when it has returned or raised
    result,           \* how the running operation ended
    last,             \* "written" when the operation before this one was a
                      \* write_setup that returned normally, else "other"
    entry,            \* write_setup: the read-back check applied to the
                      \* device's configuration when the call was entered
    reqs,             \* requests sent by the running operation, in order
    printed,          \* mismatch messages printed by the latest attempt
    max_retries, verbose, kwargs,          \* write_setup arguments
    new_setup, query, attempts, verified,  \* write_setup locals
    exptime, timeout, latchup_action,      \* take_exposure arguments
    cooling, temperature_setpoint, cutoff, \* take_exposure locals
    state, temp_history, pwr_history,
    now,              \* time.time(), in seconds since cutoff was computed
    ticks,            \* iterations of the monitoring loop started
    detected,         \* 'Detected cooling latchup!' was printed
    actionCalls,      \* invocations of latchup_action
    saved,            \* the image was written to fname
    network,          \* Camera.network: None or the cached EthernetParams
    filter_names,     \* Camera.filter_names: None or the cached FilterNames
    caller,           \* "initialize" while initialize runs, else "none"
    caught,           \* errors caught and discarded by an except clause
    reboot, fan_setpoint, init_setpoint,   \* initialize arguments
    num_temperature_samples, max_tavg_error, low_temperature_ok,
    history,          \* initialize: the temperature readings so far
    before,           \* reboot: the four cache slots when it was entered
    loop,             \* calibrate: the exposure loop that runs, or "end"
    iLoop,            \* calibrate: i - i0, exposures saved by the running loop
    number,           \* calibrate: exposures asked of each loop
    exposing,         \* an exposure was started and the device has not
                      \* been seen Idle since
    forms,            \* FormParser.forms
    self_form,        \* FormParser.form: None or <<name>>, the open form
    form_name,        \* FormParser.form_name: None or <<name>>
    doc,              \* the tags fed to the parser so far
    clock,            \* datetime.datetime.now() as start_exposure reads it
    stamp,            \* None or the DateTime that start_exposure sends
    current_filter_number,  \* Camera.current_filter_number, None if unset
    filter_number, wait, max_wait,  \* set_filter arguments
    remaining,        \* set_filter: polls left
    status            \* set_filter: None or <<the latest FilterState answer>>

camVars == <<setup, exposure_config>>
slotVars == <<network, filter_names>>
inArgs == <<reboot, fan_setpoint, init_setpoint, num_temperature_samples,
            max_tavg_error, low_temperature_ok>>
inVars == <<caller, caught, inArgs, history>>
sessVars == <<loop, iLoop, number, exposing>>
fpVars == <<forms, self_form, form_name, doc>>
tsVars == <<clock, stamp>>
sfVars == <<current_filter_number, filter_number, wait, max_wait, remaining,
           status>>
auxVars == <<tsVars, sfVars>>
moreVars == <<sessVars, fpVars, auxVars>>
extVars == <<slotVars, inVars, before, moreVars>>
devVars == <<devSetup, devK, devCount>>
wsVars == <<max_retries, verbose, kwargs, new_setup, query, attempts, verified>>
teArgs == <<exptime, timeout, latchup_action>>
teLocals == <<cooling, temperature_setpoint, cutoff, state, temp_history,
              pwr_history, now, ticks>>
teObs == <<detected, actionCalls, saved>>
teVars == <<teArgs, teLocals, teObs>>

NoResult == [op |-> "none", outcome |-> "none", err |-> "", args |-> <<>>,
             value |-> "None"]
Returned(op, val) ==
    [op |-> op, outcome |-> "ok", err |-> "", args |-> <<>>, value |-> val]
Raised(op, err, args) ==
    [op |-> op, outcome |-> "raised", err |-> err, args |-> args,
     value |-> "None"]

\* Requests
GetSetup == "GET /setup.html"
GetSetupQuery == "GET /setup.html?query"

\* requests.get may raise only on the arbitrary network
MayFail == devK = 0

\* Faulty variant: the form is read on every call.
NeedsRead_Always(slot) == TRUE
\* Faulty variant: a cached network form is read again.
NeedsRead_Network(slot) == slot = None \/ slot = <<[name |-> "IPAddress",
                                                    value |-> "10.0.1.3"]>>
\* camera.py lines 84, 102, 174: a form is read when its slot is empty
NeedsRead(slot) == slot = None

----------------------------------------------------------------------------
(* The device *)

QueryDev(q) == [f \in SetupFieldSet |-> Get(q, f)]

\* The device receives the setup page request with query q.
DevWrite(q) ==
    IF devK = 0
    THEN /\ devSetup' \in [SetupFieldSet -> DevStrs]
         /\ devCount' = devCount
    ELSE /\ devCount' = (devCount + 1) % devK
         /\ devSetup' = IF devCount + 1 = devK THEN QueryDev(q) ELSE devSetup

----------------------------------------------------------------------------
(* Camera.write_setup *)

\* The keyword arguments tried: an int or a str for the radio group, a
\* float for the temperature, and a name the setup form does not have.
PyVals(name) ==
    CASE name = "CoolerState" -> {I("1"), S("0")}
      [] name = "CCDTemperatureSetpoint" -> {F("1.0")}
      [] name = BogusKey -> {I("1")}
WsKwargs ==
    UNION {{kw \in [D -> {I("1"), S("0"), F("1.0")}] :
               \A name \in D : kw[name] \in PyVals(name)} :
           D \in SUBSET (SetupFieldSet \cup {BogusKey})}

\* lines 115-121: the read-back check of one attempt
ReadValue(params, form, i) ==
    Convert(params[i].value.t, Get(form, params[i].name))
FirstConvErr(params, form) ==
    IF \E i \in 1..Len(params) : ReadValue(params, form, i) = ValueErr
    THEN CHOOSE i \in 1..Len(params) :
            /\ ReadValue(params, form, i) = ValueErr
            /\ \A j \in 1..(i - 1) : ReadValue(params, form, j) # ValueErr
    ELSE 0
\* Faulty variant: only the first field is compared.
Mismatch_FirstOnly(params, form, i) ==
    /\ i = 1
    /\ ReadValue(params, form, i) # ValueErr
    /\ ReadValue(params, form, i).v # params[i].value.v
\* Faulty variant: only the fields named by the call are compared.
Mismatch_OverriddenOnly(params, form, i) ==
    /\ params[i].name \in DOMAIN kwargs
    /\ ReadValue(params, form, i) # ValueErr
    /\ ReadValue(params, form, i).v # params[i].value.v
Mismatch(params, form, i) ==
    /\ ReadValue(params, form, i) # ValueErr
    /\ ReadValue(params, form, i).v # params[i].value.v
Checked(params, form) ==
    LET e == FirstConvErr(params, form)
    IN IF e = 0 THEN Len(params) ELSE e - 1
RECURSIVE MsgsUpTo(_, _, _)
MsgsUpTo(params, form, n) ==
    IF n = 0 THEN <<>>
    ELSE MsgsUpTo(params, form, n - 1) \o
         (IF Mismatch(params, form, n)
          THEN <<[name |-> params[n].name,
                  wrote |-> Format(params[n].value),
                  read |-> Format(ReadValue(params, form, n))]>>
          ELSE <<>>)
Msgs(params, form) == MsgsUpTo(params, form, Checked(params, form))
Verified(params, form) == Bool(Msgs(params, form) = <<>>)

\* The check applied to a form: "ValueError" when a text does not convert
EntryCheck(params, form) ==
    IF FirstConvErr(params, form) # 0 THEN "ValueError"
    ELSE Verified(params, form)

\* Faulty variant: one attempt too many.
LoopCond_OffByOne(n, done) == done <= 1 + n
\* line 109
LoopCond(n, done) == done < 1 + n

\* Faulty variant: the message reports the attempts made.
VerifyError_Attempts(n) ==
    Raised("write_setup", "RuntimeError: Failed to verify setup",
           <<ToString(n + 1)>>)
\* line 128
VerifyError(n) ==
    Raised("write_setup", "RuntimeError: Failed to verify setup",
           <<ToString(n)>>)
TransportError(op) == Raised(op, "RuntimeError: Unable to get", <<>>)

\* lines 101-108: entry, lazy baseline read, query construction
WriteSetupCall(n, vb, kw) ==
    /\ pc = "idle"
    /\ max_retries' = n /\ verbose' = vb /\ kwargs' = kw
    /\ printed' = <<>>
    /\ UNCHANGED <<devVars, exposure_config, last, teVars, extVars>>
    /\ \/ /\ NeedsRead(setup) /\ MayFail
          /\ reqs' = <<GetSetup>>
          /\ result' = TransportError("write_setup")
          /\ pc' = "done"
          /\ UNCHANGED <<setup, new_setup, query, attempts, verified, entry>>
       \/ LET base == IF NeedsRead(setup) THEN SetupForm(devSetup)
                      ELSE setup
          IN /\ reqs' = IF NeedsRead(setup) THEN <<GetSetup>> ELSE <<>>
             /\ setup' = base
             /\ IF BuildQueryFails(base, kw)
                THEN /\ result' = Raised("write_setup",
                                         "ValueError: Invalid name", <<>>)
                     /\ pc' = "done"
                     /\ UNCHANGED <<new_setup, query, attempts, verified,
                                    entry>>
                ELSE /\ new_setup' = Params(base, kw)
                     /\ entry' = EntryCheck(Params(base, kw),
                                            SetupForm(devSetup))
                     /\ query' = QueryOf(Params(base, kw))
                     /\ attempts' = 0
                     /\ verified' = Unbound
                     /\ result' = NoResult
                     /\ pc' = "ws_loop"

\* lines 109-123: one write and its read-back check
WsAttempt ==
    /\ pc = "ws_loop" /\ LoopCond(max_retries, attempts)
    /\ reqs' = Append(reqs, GetSetupQuery)
    /\ UNCHANGED <<exposure_config, devK, max_retries, verbose, kwargs,
                   new_setup, query, last, entry, teVars, extVars>>
    /\ \/ /\ MayFail
          /\ result' = TransportError("write_setup")
          /\ pc' = "done"
          /\ UNCHANGED <<setup, devSetup, devCount, attempts, verified,
                         printed>>
       \/ /\ DevWrite(query)
          /\ setup' = SetupForm(devSetup')
          /\ attempts' = attempts + 1
          /\ printed' = IF verbose THEN Msgs(new_setup, setup') ELSE <<>>
          /\ IF FirstConvErr(new_setup, setup') # 0
             THEN /\ verified' = Verified(new_setup, setup')
                  /\ result' = Raised("write_setup",
                                      "ValueError: invalid literal", <<>>)
                  /\ pc' = "done"
             ELSE /\ verified' = Verified(new_setup, setup')
                  /\ IF verified' = "True"
                     THEN /\ result' = Returned("write_setup", "None")
                          /\ pc' = "done"
                     ELSE /\ result' = NoResult
                          /\ pc' = "ws_reread"

\* lines 124-126: re-read the setup before retrying
WsReread ==
    /\ pc = "ws_reread"
    /\ reqs' = Append(reqs, GetSetup)
    /\ UNCHANGED <<exposure_config, devVars, wsVars, printed, last, entry,
                   teVars, extVars>>
    /\ \/ /\ MayFail
          /\ result' = TransportError("write_setup")
          /\ pc' = "done"
          /\ UNCHANGED setup
       \/ /\ setup' = SetupForm(devSetup)
          /\ pc' = "ws_loop"
          /\ UNCHANGED result

\* lines 109, 127-128: the loop condition fails
WsGiveUp ==
    /\ pc = "ws_loop" /\ ~LoopCond(max_retries, attempts)
    /\ result' = IF verified = Unbound
                 THEN Raised("write_setup", "UnboundLocalError", <<>>)
                 ELSE VerifyError(max_retries)
    /\ pc' = "done"
    /\ UNCHANGED <<camVars, devVars, wsVars, reqs, printed, last, entry,
                   teVars, extVars>>

----------------------------------------------------------------------------
(* Camera.start_exposure, Camera.save_exposure, Camera.call_api *)

GetExposure == "GET /exposure.html"
GetExposureQuery == "GET /exposure.html?query"
GetImage == "GET /Image.FIT"
ApiTemp == "GET /api/ImagerGetSettings.cgi?CCDTemperature"
ApiPwr == "GET /api/ImagerGetSettings.cgi?CoolerPower"
ApiState == "GET /api/CurrentCCDState.cgi"

ExposureFields == <<"ExposureTime", "ImageType", "Contrast", "DateTime">>
\* The form _read_form returns for the device's exposure page.
ExposureForm ==
    [i \in 1..Len(ExposureFields) |-> [name |-> ExposureFields[i], value |-> "0"]]

\* line 189: the keyword arguments with the time stamp added
WithDateTime(kw) == ("DateTime" :> S("now")) @@ kw

\* The texts of the time stamp are sequences of characters; the date, hour
\* and minute, which the code leaves alone, are one element.
DateMinute == "YYYY-MM-DDTHH:MM"
RECURSIVE Digits(_, _)
\* the decimal digits of n, zero-padded to width characters
Digits(n, width) ==
    IF width = 0 THEN <<>>
    ELSE Append(Digits(n \div 10, width - 1),
                <<"0", "1", "2", "3", "4", "5", "6", "7", "8", "9">>[
                    (n % 10) + 1])

\* line 179: round(x, -3) of an int, to the nearest thousand, a tie to the
\* even one
RoundThousands(x) ==
    LET q == x \div 1000
        r == x % 1000
    IN IF r < 500 \/ (r = 500 /\ q % 2 = 0) THEN q * 1000
       ELSE (q + 1) * 1000
\* lines 180-185
ClampMicros(m) == IF m < 0 THEN 0 ELSE IF m > 999000 THEN 999000 ELSE m
\* datetime.isoformat(): the fraction is left out when microsecond is 0
Isoformat(second, microsecond) ==
    <<DateMinute, ":">> \o Digits(second, 2) \o
    (IF microsecond = 0 THEN <<>> ELSE <<".">> \o Digits(microsecond, 6))
\* lines 178-189: the DateTime made of the time t
DateTimeOf(t) ==
    LET micros == ClampMicros(RoundThousands(t.microsecond))
        truncated == Isoformat(t.second, micros)
    IN SubSeq(truncated, 1, Len(truncated) - 3)

\* lines 178-189 on their own: start_exposure reads the clock and makes
\* the DateTime
MakeStamp ==
    /\ pc = "se_stamp"
    /\ stamp' = DateTimeOf(clock)
    /\ pc' = "done"
    /\ UNCHANGED <<camVars, slotVars, devVars, result, last, entry, reqs,
                   printed, wsVars, teVars, inVars, before, sessVars, fpVars,
                   clock, sfVars>>

\* Camera.start_exposure, lines 173-193.  out is how the call ends:
\* the lazy read of the exposure form fails, _build_query rejects a name,
\* the request that starts the exposure fails, or it is sent and answered.
StartOutcomes(kw) ==
    LET base == IF NeedsRead(exposure_config) THEN ExposureForm
                ELSE exposure_config
    IN (IF NeedsRead(exposure_config) /\ MayFail THEN {"fetch_fail"}
        ELSE {}) \cup
       (IF BuildQueryFails(base, WithDateTime(kw)) THEN {"bad_name"}
        ELSE {"ok"} \cup (IF MayFail THEN {"get_fail"} ELSE {}))
StartExposure(kw, out) ==
    /\ out \in StartOutcomes(kw)
    /\ exposure_config' = IF NeedsRead(exposure_config) /\ out # "fetch_fail"
                          THEN ExposureForm ELSE exposure_config
    /\ reqs' = (IF NeedsRead(exposure_config) THEN <<GetExposure>>
                ELSE <<>>) \o
               (IF out \in {"ok", "get_fail"} THEN <<GetExposureQuery>>
                ELSE <<>>)
StartError(op, out) ==
    IF out = "bad_name" THEN Raised(op, "ValueError: Invalid name", <<>>)
    ELSE TransportError(op)

SeKwargs == {<<>>, ("ExposureTime" :> F("1.0")), (BogusKey :> I("1")),
             ("ExposureTime" :> F("1.0")) @@ (BogusKey :> I("1"))}

\* Camera.start_exposure called on its own
StartExposureCall(kw) ==
    /\ pc = "idle"
    /\ \E out \in StartOutcomes(kw) :
          /\ StartExposure(kw, out)
          /\ result' = IF out = "ok" THEN Returned("start_exposure", "None")
                       ELSE StartError("start_exposure", out)
    /\ pc' = "done"
    /\ kwargs' = kw
    /\ UNCHANGED <<setup, devVars, last, entry, printed, max_retries, verbose,
                   new_setup, query, attempts, verified, teVars, extVars>>

----------------------------------------------------------------------------
(* calibrate.take_exposure *)

TempVals == {2, 4}       \* readings of CCDTemperature, degC
PwrVals == {50, 100}     \* readings of CoolerPower, percent
StateVals == {"0", "2"}  \* CurrentCCDState: Idle, Exposing

\* float(text) as a number, for the texts of the model
FloatNum(val) == CASE val.v = "0.0" -> 0 [] val.v = "1.0" -> 1

Min(h) == CHOOSE x \in {h[i] : i \in 1..Len(h)} :
              \A j \in 1..Len(h) : x <= h[j]

\* lines 144-147: np.percentile of an empty series raises in the numpy
\* releases that index the sorted data and yields nan in the others.
PercentileOutcomes(h) == IF h = <<>> THEN {"raise", "nan"} ELSE {"ok"}

\* Faulty variant: the loop is not left when the device reports Idle.
Breaks_Never(answer) == FALSE
\* lines 139-140: the state that ends the monitoring loop
Breaks(answer) == answer = "0"

\* Faulty variant: a latchup ends the call whether or not an action was given.
Recover_Always(latchup, action) == latchup
\* lines 152-156: a detected latchup is handed to the caller's action
Recover(latchup, action) == latchup /\ action

\* Faulty variant: a minimum of exactly setpoint + 2 counts as a latchup.
Latchup_AtMargin(cool, pwr, temp, setpoint) ==
    /\ cool
    /\ \E i \in 1..Len(pwr) : pwr[i] = 100
    /\ Min(temp) >= setpoint + 2
\* line 152
Latchup(cool, pwr, temp, setpoint) ==
    /\ cool
    /\ \E i \in 1..Len(pwr) : pwr[i] = 100
    /\ Min(temp) > setpoint + 2

\* Faulty variant: every final state counts as Idle.
Unexpected_Never(st) == FALSE
\* line 149: the exposure did not end in the Idle state
Unexpected(st) == st # "0"

\* Faulty variant: the setup slot is not looked at.
NotInitialized_Never(slot) == FALSE
\* line 118: if camera.setup is None
NotInitialized(slot) == slot = None
\* line 119
NotInitializedError ==
    Raised("take_exposure", "RuntimeError: Camera has not been initialized",
           <<>>)

\* lines 117-128
TakeExposureCall(et, to, shutter_open, action) ==
    /\ pc = "idle"
    /\ exptime' = et /\ timeout' = to /\ latchup_action' = action
    /\ UNCHANGED <<setup, devVars, last, entry, printed, wsVars, teObs,
                   state, temp_history, pwr_history, now, ticks, extVars>>
    /\ IF NotInitialized(setup)
       THEN /\ result' = NotInitializedError
            /\ pc' = "done"
            /\ UNCHANGED <<exposure_config, reqs, cooling,
                           temperature_setpoint, cutoff>>
       ELSE IF setup = None
       THEN \* line 120: None is not subscriptable
            /\ result' = Raised("take_exposure", "TypeError", <<>>)
            /\ pc' = "done"
            /\ UNCHANGED <<exposure_config, reqs, cooling,
                           temperature_setpoint, cutoff>>
       ELSE IF Convert("int", Get(setup, "CoolerState")) = ValueErr
       THEN /\ result' = Raised("take_exposure",
                                "ValueError: invalid literal", <<>>)
            /\ pc' = "done"
            /\ UNCHANGED <<exposure_config, reqs, cooling,
                           temperature_setpoint, cutoff>>
       ELSE /\ cooling' = (Convert("int", Get(setup, "CoolerState")) = I("1"))
            /\ temperature_setpoint' =
                   FloatNum(Convert("float",
                                    Get(setup, "CCDTemperatureSetpoint")))
            /\ \E out \in StartOutcomes(
                     [ExposureTime |-> F(ToString(et) \o ".0"),
                      ImageType |-> IF shutter_open THEN I("1") ELSE I("0"),
                      Contrast |-> I("1")]) :
                  /\ StartExposure(
                         [ExposureTime |-> F(ToString(et) \o ".0"),
                          ImageType |-> IF shutter_open THEN I("1")
                                        ELSE I("0"),
                          Contrast |-> I("1")], out)
                  /\ IF out = "ok"
                     THEN /\ cutoff' = now + et + to
                          /\ result' = NoResult
                          /\ pc' = "te_loop"
                     ELSE /\ result' = StartError("take_exposure", out)
                          /\ pc' = "done"
                          /\ UNCHANGED cutoff

\* lines 132-138: the polls of one iteration, and those sent when the n-th
\* poll of a cooling camera raises
Polls(cool) == IF cool THEN <<ApiTemp, ApiPwr, ApiState>> ELSE <<ApiState>>
PollsUntil(n) == SubSeq(<<ApiTemp, ApiPwr>>, 1, n)

\* line 215: what call_api raises when its request fails
ApiError == Raised("call_api", "RuntimeError: Unable to call API method",
                   <<>>)
\* Faulty variant: the handler lets the error of a poll through.
Tolerated_None(res) == FALSE
\* line 141: except RuntimeError
Tolerated(res) == res.err \in {ApiError.err, "RuntimeError: Unable to get"}

\* lines 141-143: a poll has raised; the handler prints the error and the
\* iteration goes on to its sleep
PollRaises(lag) ==
    IF Tolerated(ApiError)
    THEN /\ caught' = Append(caught, ApiError)
         /\ now' = now + lag + 1
         /\ UNCHANGED <<pc, result>>
    ELSE /\ result' = [ApiError EXCEPT !.op = "take_exposure"]
         /\ pc' = "done"
         /\ now' = now + lag
         /\ UNCHANGED caught

\* Faulty variant: the readings are appended after the state was read, so
\* not in the iteration that finds the device Idle.
Sampled_AfterState(h, reading) ==
    IF cooling /\ state # "?" THEN Append(h, reading) ELSE h
\* lines 132-136: the readings are taken and appended when cooling is on
Sampled(h, reading) == IF cooling THEN Append(h, reading) ELSE h

\* Faulty variant: the loop runs one more time at the deadline.
Monitoring_Inclusive == now <= cutoff
\* line 129: while time.time() < cutoff
Monitoring == now < cutoff

\* lines 129-143: one iteration of the monitoring loop; the polls take lag
\* seconds and time.sleep one more
TeTick ==
    /\ pc = "te_loop" /\ Monitoring
    /\ ticks' = ticks + 1
    /\ \E lag \in 0..MaxLag :
       \/ \* a poll of the temperature or of the power raises
          /\ cooling
          /\ \E n \in 1..2 : reqs' = reqs \o PollsUntil(n)
          /\ PollRaises(lag)
          /\ UNCHANGED <<state, temp_history, pwr_history>>
       \/ \E temp_now \in TempVals, pwr_now \in PwrVals :
             /\ temp_history' = Sampled(temp_history, temp_now)
             /\ pwr_history' = Sampled(pwr_history, pwr_now)
             /\ reqs' = reqs \o Polls(cooling)
             /\ \/ \* the poll of the state raises
                   /\ PollRaises(lag)
                   /\ UNCHANGED state
                \/ \E answer \in StateVals :
                      /\ state' = answer
                      /\ IF Breaks(answer)
                         THEN pc' = "te_after" /\ now' = now + lag
                         ELSE now' = now + lag + 1 /\ UNCHANGED pc
                      /\ UNCHANGED <<caught, result>>
    /\ UNCHANGED <<camVars, devVars, last, entry, printed, wsVars, teArgs,
                   teObs, cooling, temperature_setpoint, cutoff, slotVars,
                   caller, inArgs, history, before, moreVars>>

\* lines 144-160: after the loop
TeFinish ==
    /\ pc = "te_after" \/ (pc = "te_loop" /\ ~Monitoring)
    /\ pc' = "done"
    /\ UNCHANGED <<camVars, devVars, last, entry, printed, wsVars, teArgs,
                   teLocals, extVars>>
    /\ \E stats \in (IF cooling THEN PercentileOutcomes(temp_history)
                     ELSE {"skip"}) :
          IF stats = "raise"
          THEN /\ result' = Raised("take_exposure", "IndexError", <<>>)
               /\ UNCHANGED <<reqs, teObs>>
          ELSE IF Unexpected(state)
          THEN /\ result' = Returned("take_exposure", "False")
               /\ UNCHANGED <<reqs, teObs>>
          ELSE IF Recover(Latchup(cooling, pwr_history, temp_history,
                                  temperature_setpoint), latchup_action)
          THEN /\ detected' = TRUE
               /\ actionCalls' = actionCalls + 1
               /\ result' = Returned("take_exposure", "False")
               /\ UNCHANGED <<reqs, saved>>
          ELSE /\ detected' = Latchup(cooling, pwr_history, temp_history,
                                      temperature_setpoint)
               /\ reqs' = Append(reqs, GetImage)
               /\ UNCHANGED actionCalls
               /\ \/ /\ saved' = TRUE
                     /\ result' = Returned("take_exposure", "True")
                  \/ /\ MayFail
                     /\ result' = TransportError("take_exposure")
                     /\ UNCHANGED saved

----------------------------------------------------------------------------
(* Camera.reboot *)

GetNetwork == "GET /network.html"
GetNetworkQuery == "GET /network.html?query"
GetInfo == "GET /index.html"
Sleep5 == "time.sleep(5)"

\* The form _read_form returns for the device's network page.
NetworkForm == <<[name |-> "IPAddress", value |-> "10.0.1.3"]>>
\* The form read_filter_config caches.
FilterForm == <<[name |-> "Filter1", value |-> "R"],
                [name |-> "Filter2", value |-> "G"]>>

\* How _read_form ends: the form is returned, requests.get fails, FormParser
\* raises its RuntimeError, or the document has no form of the name asked.
FormOutcomes == {"ok", "transport", "parse", "missing"}
\* How read_info ends: the same for the info page and IndexParser, whose
\* handle_endtag asserts.
InfoOutcomes == {"ok", "transport", "assert"}

ParseError(op) == Raised(op, "RuntimeError: Found", <<>>)
FormError(op, out) ==
    CASE out = "transport" -> TransportError(op)
      [] out = "parse" -> ParseError(op)
      [] out = "missing" -> Raised(op, "KeyError", <<>>)

\* Faulty variant: the except clause lets a parser error through.
Catches_TransportOnly(out) == out = "transport"
\* line 93: except RuntimeError catches what _get and FormParser raise
Catches(out) == out \in {"transport", "parse"}

\* An operation called by initialize hands a normal return back to it and
\* lets an error pass through it; called on its own it ends.
EndCall(res, resume) ==
    IF caller = "initialize" /\ res.outcome = "ok"
    THEN pc' = resume /\ result' = NoResult
    ELSE pc' = "done" /\ result' = res

Slots == <<setup, network, exposure_config, filter_names>>

\* lines 84-88: lazy read of the network form, query construction
RebootCall ==
    /\ pc \in {"idle", "in_reboot"}
    /\ before' = Slots
    /\ UNCHANGED <<camVars, filter_names, devVars, last, entry, printed,
                   wsVars, teVars, inVars,
                   moreVars>>
    /\ IF NeedsRead(network)
       THEN /\ reqs' = Append(reqs, GetNetwork)
            /\ \E out \in FormOutcomes :
                  IF out = "ok"
                  THEN /\ network' = NetworkForm
                       /\ pc' = "rb_submit" /\ result' = NoResult
                  ELSE /\ result' = FormError("reboot", out)
                       /\ pc' = "done"
                       /\ UNCHANGED network
       ELSE /\ pc' = "rb_submit" /\ result' = NoResult
            /\ UNCHANGED <<network, reqs>>

\* Faulty variant: the settle delay and the info fetch follow an answered
\* resubmission too, as in a finally clause.
RebootSubmit_Settles ==
    /\ pc = "rb_submit"
    /\ UNCHANGED <<camVars, slotVars, devVars, last, entry, printed, wsVars,
                   teVars, caller, inArgs, history, before,
                   moreVars>>
    /\ \E out \in FormOutcomes :
          IF Catches(out) \/ out = "ok"
          THEN /\ caught' = IF out = "ok" THEN caught
                            ELSE Append(caught, FormError("reboot", out))
               /\ reqs' = reqs \o <<GetNetworkQuery, Sleep5>>
               /\ pc' = "rb_settle"
               /\ UNCHANGED result
          ELSE /\ reqs' = Append(reqs, GetNetworkQuery)
               /\ UNCHANGED caught
               /\ EndCall(FormError("reboot", out), "in_fan")
\* lines 89-95: the resubmission, expected to time out, and the settle delay
RebootSubmit ==
    /\ pc = "rb_submit"
    /\ UNCHANGED <<camVars, slotVars, devVars, last, entry, printed, wsVars,
                   teVars, caller, inArgs, history, before,
                   moreVars>>
    /\ \E out \in FormOutcomes :
          IF Catches(out)
          THEN /\ caught' = Append(caught, FormError("reboot", out))
               /\ reqs' = reqs \o <<GetNetworkQuery, Sleep5>>
               /\ pc' = "rb_settle"
               /\ UNCHANGED result
          ELSE /\ reqs' = Append(reqs, GetNetworkQuery)
               /\ UNCHANGED caught
               /\ EndCall(IF out = "ok" THEN Returned("reboot", "None")
                          ELSE FormError("reboot", out), "in_fan")

\* Faulty variant: a failing fetch of the info page is tried again.
RebootSettle_Retry ==
    /\ pc = "rb_settle"
    /\ reqs' = Append(reqs, GetInfo)
    /\ UNCHANGED <<camVars, slotVars, devVars, last, entry, printed, wsVars,
                   teVars, inVars, before, moreVars>>
    /\ \/ EndCall(Returned("reboot", "None"), "in_fan")
       \/ UNCHANGED <<pc, result>>
\* line 96: read_info
RebootSettle ==
    /\ pc = "rb_settle"
    /\ reqs' = Append(reqs, GetInfo)
    /\ UNCHANGED <<camVars, slotVars, devVars, last, entry, printed, wsVars,
                   teVars, inVars, before, moreVars>>
    /\ \E out \in InfoOutcomes :
          EndCall(CASE out = "ok" -> Returned("reboot", "None")
                    [] out = "transport" -> TransportError("reboot")
                    [] out = "assert" -> Raised("reboot", "AssertionError",
                                                <<>>),
                  "in_fan")

----------------------------------------------------------------------------
(* calibrate.initialize *)

WsFanAuto == "write_setup(Fan=1)"
WsFanFull == "write_setup(Fan=2, FanSetpoint=100.0)"
WsFan == "write_setup(Fan=2, FanSetpoint=fan_setpoint)"
WsCoolerOff == "write_setup(CoolerState=0)"
WsCooler == "write_setup(CCDTemperatureSetpoint=setpoint, CoolerState=1)"
WsBin == "write_setup(Bin=binning)"
Sleep2 == "time.sleep(2)"
Sleep1 == "time.sleep(1)"

\* An optional number is None or <<x>>.  Temperatures are in degC.
FanVals == {None, <<50>>, <<101>>}
SetVals == {None, <<2>>, <<31>>}
ErrVals == {1}
CdTemps == 1..3     \* readings of CCDTemperature during the cooldown

\* How a write_setup(max_retries=0) ends: it returns, the verification
\* fails, a request fails, or a read-back text does not convert.
WsOutcomes == {"ok", "verify", "transport", "value"}
WsError(out) ==
    CASE out = "verify" -> VerifyError(0)
      [] out = "transport" -> TransportError("write_setup")
      [] out = "value" -> Raised("write_setup",
                                 "ValueError: invalid literal", <<>>)
\* line 63: except RuntimeError
Swallows(out) == out \in {"verify", "transport"}
\* The setup slot after write_setup calls of which one returned iff wrote.
SetupAfter(wrote) ==
    IF wrote THEN {SetupForm(devSetup)} ELSE {setup, SetupForm(devSetup)}

RECURSIVE Sum(_)
Sum(h) == IF h = <<>> THEN 0 ELSE Head(h) + Sum(Tail(h))
Abs(x) == IF x < 0 THEN -x ELSE x

\* Faulty variant: the average is taken over every reading.
Window_All(h, n) == h
\* line 78: history[-n:], which is the whole history for n = 0
Window(h, n) ==
    IF n = 0 \/ n >= Len(h) THEN h ELSE SubSeq(h, Len(h) - n + 1, Len(h))

\* Faulty variant: the criteria are evaluated from the first reading on.
Waits_Never(h, n) == FALSE
\* line 80
Waits(h, n) == Len(h) < n

\* lines 83-88 for tavg = Sum(w) / Len(w)
Reached(w, sp, err, low) ==
    \/ Abs(Sum(w) - Len(w) * sp) < Len(w) * err
    \/ low /\ Sum(w) < Len(w) * sp

\* lines 13-14, 48-50
InitializeCall(rb, fan, sp, n, err, low) ==
    /\ pc = "idle"
    /\ caller' = "initialize" /\ caught' = <<>>
    /\ reboot' = rb /\ fan_setpoint' = fan /\ init_setpoint' = sp
    /\ num_temperature_samples' = n /\ max_tavg_error' = err
    /\ low_temperature_ok' = low
    /\ pc' = IF rb THEN "in_reboot" ELSE "in_fan"
    /\ UNCHANGED <<camVars, slotVars, devVars, last, entry, printed, wsVars,
                   teVars, history, before, reqs, result,
                   moreVars>>

\* lines 51-65: the fan
InFan ==
    /\ pc = "in_fan"
    /\ UNCHANGED <<exposure_config, slotVars, devVars, last, entry, printed,
                   wsVars, teVars, caller, inArgs, history, before, moreVars>>
    /\ IF fan_setpoint = None
       THEN /\ reqs' = Append(reqs, WsFanAuto)
            /\ UNCHANGED caught
            /\ \E out \in WsOutcomes :
                  /\ setup' \in SetupAfter(out = "ok")
                  /\ IF out = "ok"
                     THEN pc' = "in_cooler" /\ UNCHANGED result
                     ELSE pc' = "done" /\ result' = WsError(out)
       ELSE IF fan_setpoint[1] < 0 \/ fan_setpoint[1] > 100
       THEN /\ result' = Raised("initialize",
                                "ValueError: Invalid fan_setpoint", <<>>)
            /\ pc' = "done"
            /\ UNCHANGED <<setup, reqs, caught>>
       ELSE \E first \in WsOutcomes, second \in WsOutcomes :
               LET out == IF first = "ok" THEN second ELSE first
               IN /\ reqs' = reqs \o (IF first = "ok"
                                      THEN <<WsFanFull, Sleep2, WsFan>>
                                      ELSE <<WsFanFull>>)
                  /\ setup' \in SetupAfter(first = "ok")
                  /\ IF out = "ok"
                     THEN pc' = "in_cooler" /\ UNCHANGED <<result, caught>>
                     ELSE IF Swallows(out)
                     THEN /\ caught' = Append(caught, WsError(out))
                          /\ pc' = "in_cooler" /\ UNCHANGED result
                     ELSE /\ pc' = "done" /\ result' = WsError(out)
                          /\ UNCHANGED caught

\* lines 66-71: the cooler
InCooler ==
    /\ pc = "in_cooler"
    /\ UNCHANGED <<exposure_config, slotVars, devVars, last, entry, printed,
                   wsVars, teVars, inVars, before, moreVars>>
    /\ IF init_setpoint # None
          /\ (init_setpoint[1] < 0 \/ init_setpoint[1] > 30)
       THEN /\ result' = Raised("initialize",
                                "ValueError: Invalid temperature_setpoint",
                                <<>>)
            /\ pc' = "done"
            /\ UNCHANGED <<setup, reqs>>
       ELSE /\ reqs' = Append(reqs, IF init_setpoint = None THEN WsCoolerOff
                                    ELSE WsCooler)
            /\ \E out \in WsOutcomes :
                  /\ setup' \in SetupAfter(out = "ok")
                  /\ IF out = "ok"
                     THEN pc' = "in_bin" /\ UNCHANGED result
                     ELSE pc' = "done" /\ result' = WsError(out)

\* lines 72-74: the binning, and the message that formats the setpoint
InBin ==
    /\ pc = "in_bin"
    /\ reqs' = Append(reqs, WsBin)
    /\ UNCHANGED <<exposure_config, slotVars, devVars, last, entry, printed,
                   wsVars, teVars, inVars, before, moreVars>>
    /\ \E out \in WsOutcomes :
          /\ setup' \in SetupAfter(out = "ok")
          /\ IF out # "ok"
             THEN pc' = "done" /\ result' = WsError(out)
             ELSE IF init_setpoint = None
             THEN /\ pc' = "done"
                  /\ result' = Raised("initialize", "TypeError", <<>>)
             ELSE pc' = "in_cooldown" /\ UNCHANGED result

\* lines 75-88: one iteration of the cooldown loop
InTick ==
    /\ pc = "in_cooldown" /\ Len(history) < MaxReadings
    /\ reqs' = reqs \o <<Sleep1, ApiTemp>>
    /\ UNCHANGED <<camVars, slotVars, devVars, last, entry, printed, wsVars,
                   teVars, caller, caught, inArgs, before,
                   moreVars>>
    /\ \/ /\ result' = Raised("initialize",
                               "RuntimeError: Unable to call API", <<>>)
          /\ pc' = "done"
          /\ UNCHANGED history
       \/ \E t \in CdTemps :
             /\ history' = Append(history, t)
             /\ IF /\ ~Waits(history', num_temperature_samples)
                   /\ Reached(Window(history', num_temperature_samples),
                              init_setpoint[1], max_tavg_error,
                              low_temperature_ok)
                THEN /\ pc' = "done"
                     /\ result' = Returned("initialize", "None")
                ELSE UNCHANGED <<pc, result>>

\* The operation's frame is dropped; the camera object and the device stay.
NoFrame ==
    /\ max_retries = 0 /\ verbose = FALSE /\ kwargs = <<>>
    /\ new_setup = <<>> /\ query = <<>> /\ attempts = 0
    /\ verified = Unbound /\ entry = "none"
    /\ exptime = 0 /\ timeout = 0 /\ latchup_action = FALSE
    /\ cooling = FALSE /\ temperature_setpoint = 0 /\ cutoff = 0
    /\ state = "?" /\ temp_history = <<>> /\ pwr_history = <<>>
    /\ now = 0 /\ ticks = 0
    /\ detected = FALSE /\ actionCalls = 0 /\ saved = FALSE
    /\ caller = "none" /\ caught = <<>>
    /\ reboot = FALSE /\ fan_setpoint = None /\ init_setpoint = None
    /\ num_temperature_samples = 0 /\ max_tavg_error = 0
    /\ low_temperature_ok = FALSE /\ history = <<>>
    /\ before = <<>>
NoSession == loop = "end" /\ iLoop = 0 /\ number = <<>> /\ exposing = FALSE
NoParser == forms = <<>> /\ self_form = None /\ form_name = None /\ doc = <<>>
\* No time stamp has been made and set_filter is not running; the filter
\* number is set when the filter form has been read.
NoAux ==
    /\ clock = None /\ stamp = None
    /\ current_filter_number = (IF filter_names = None THEN None ELSE <<1>>)
    /\ filter_number = 0 /\ wait = FALSE /\ max_wait = 0 /\ remaining = 0
    /\ status = None

DropFrame ==
    /\ pc = "done"
    /\ pc' = "idle"
    /\ last' = IF result.op = "write_setup" /\ result.outcome = "ok"
               THEN "written" ELSE "other"
    /\ result' = NoResult /\ reqs' = <<>> /\ printed' = <<>>
    /\ max_retries' = 0 /\ verbose' = FALSE /\ kwargs' = <<>>
    /\ new_setup' = <<>> /\ query' = <<>> /\ attempts' = 0
    /\ verified' = Unbound /\ entry' = "none"
    /\ exptime' = 0 /\ timeout' = 0 /\ latchup_action' = FALSE
    /\ cooling' = FALSE /\ temperature_setpoint' = 0 /\ cutoff' = 0
    /\ state' = "?" /\ temp_history' = <<>> /\ pwr_history' = <<>>
    /\ now' = 0 /\ ticks' = 0
    /\ detected' = FALSE /\ actionCalls' = 0 /\ saved' = FALSE
    /\ caller' = "none" /\ caught' = <<>>
    /\ reboot' = FALSE /\ fan_setpoint' = None /\ init_setpoint' = None
    /\ num_temperature_samples' = 0 /\ max_tavg_error' = 0
    /\ low_temperature_ok' = FALSE /\ history' = <<>>
    /\ before' = <<>>
    /\ UNCHANGED <<camVars, devVars, slotVars>>

Return == DropFrame /\ UNCHANGED moreVars

----------------------------------------------------------------------------
(* Camera.read_filter_config and Camera.set_filter *)

\* lines 136, 152: the query is appended to the path as it is
GetFilterQuery(n) == "GET /filtersetup.htmlFilter=" \o ToString(n)
ApiFilterState == "GET /api/FilterState.cgi"

\* The number FilterParser leaves in current_filter_number: that of a
\* filter the form names, or of one it does not name.
ParsedFilterNumbers == {1, 2, 3}
\* The answers of FilterState.cgi, as sequences of characters: empty, Idle,
\* Moving, and another code alone or followed by a character
FilterStatuses == {<<>>, <<"0">>, <<"1">>, <<"2">>, <<"2", "1">>}

\* read_filter_config, lines 135-144, called by op with the request req:
\* _read_form ends as out says and the parser reports filter n.  The slot
\* and the number are assigned before the name is looked up.
ReadFilterConfig(op, req, out, n) ==
    /\ reqs' = Append(reqs, req)
    /\ IF out = "ok"
       THEN current_filter_number' = <<n>>
       ELSE UNCHANGED current_filter_number
ReadFilterError(op, out, n) ==
    IF out # "ok" THEN FormError(op, out) ELSE Raised(op, "KeyError", <<>>)
\* line 141: the name of the current filter is looked up in the form
ReadFilterFails(out, n) ==
    out # "ok" \/ ("Filter" \o ToString(n)) \notin Names(FilterForm)

\* read_filter_config called on its own
ReadFilterConfigCall ==
    /\ pc = "idle"
    /\ \E out \in FormOutcomes, n \in ParsedFilterNumbers :
          /\ ReadFilterConfig("read_filter_config",
                              "GET /filtersetup.html", out, n)
          /\ filter_names' = IF out = "ok" THEN FilterForm ELSE filter_names
          /\ result' = IF ReadFilterFails(out, n)
                        THEN ReadFilterError("read_filter_config", out, n)
                        ELSE Returned("read_filter_config", "None")
    /\ pc' = "done"
    /\ UNCHANGED <<camVars, network, devVars, last, entry, printed, wsVars,
                   teVars, inVars, before, sessVars, fpVars, tsVars,
                   filter_number, wait, max_wait, remaining, status>>

\* set_filter, lines 146-159: the argument check, the request that moves
\* the wheel, the check of the number read back and the entry into the wait
SetFilterCall(fn, w, mw) ==
    /\ pc = "idle"
    /\ filter_number' = fn /\ wait' = w /\ max_wait' = mw
    /\ UNCHANGED <<camVars, network, devVars, last, entry, printed, wsVars,
                   teVars, inVars, before, sessVars, fpVars, tsVars, status>>
    /\ IF fn \notin 1..8
       THEN /\ result' = Raised("set_filter",
                                "ValueError: Invalid filter_number", <<>>)
            /\ pc' = "done"
            /\ UNCHANGED <<reqs, filter_names, current_filter_number,
                           remaining>>
       ELSE \E out \in FormOutcomes, n \in ParsedFilterNumbers :
               /\ ReadFilterConfig("set_filter", GetFilterQuery(fn), out, n)
               /\ IF ReadFilterFails(out, n)
                  THEN /\ filter_names' = IF out = "ok" THEN FilterForm
                                          ELSE filter_names
                       /\ result' = ReadFilterError("set_filter", out, n)
                       /\ pc' = "done"
                       /\ UNCHANGED remaining
                  ELSE \* line 151 assigns what read_filter_config returns
                       /\ filter_names' = None
                       /\ IF n # fn
                          THEN /\ result' = Raised("set_filter",
                                      "RuntimeError: Filter number mismatch",
                                      <<n, fn>>)
                               /\ pc' = "done"
                               /\ UNCHANGED remaining
                          ELSE IF w /\ mw > 0
                          THEN /\ remaining' = mw
                               /\ result' = NoResult
                               /\ pc' = "sf_wait"
                          ELSE /\ remaining' = IF w THEN mw ELSE remaining
                               /\ result' = Returned("set_filter", "None")
                               /\ pc' = "done"

\* set_filter, lines 160-168: one iteration of the wait
SetFilterPoll ==
    /\ pc = "sf_wait"
    /\ reqs' = reqs \o <<Sleep1, ApiFilterState>>
    /\ UNCHANGED <<camVars, slotVars, devVars, last, entry, printed, wsVars,
                   teVars, inVars, before, sessVars, fpVars, tsVars,
                   current_filter_number, filter_number, wait, max_wait>>
    /\ \/ \* call_api raises
          /\ result' = [ApiError EXCEPT !.op = "set_filter"]
          /\ pc' = "done"
          /\ UNCHANGED <<status, remaining>>
       \/ \E answer \in FilterStatuses :
             /\ status' = <<answer>>
             /\ IF answer = <<>>
                THEN /\ result' = Raised("set_filter", "IndexError", <<>>)
                     /\ pc' = "done"
                     /\ UNCHANGED remaining
                ELSE IF answer[1] = "0"
                THEN /\ result' = Returned("set_filter", "None")
                     /\ pc' = "done"
                     /\ UNCHANGED remaining
                ELSE IF answer[1] # "1"
                THEN /\ result' =
                        IF Len(answer) < 2
                        THEN Raised("set_filter", "IndexError", <<>>)
                        ELSE Raised("set_filter",
                                    "RuntimeError: Failed to complete filter wheel move",
                                    <<max_wait>>)
                     /\ pc' = "done"
                     /\ UNCHANGED remaining
                ELSE /\ remaining' = remaining - 1
                     /\ IF remaining - 1 > 0
                        THEN UNCHANGED <<pc, result>>
                        ELSE /\ result' = Returned("set_filter", "None")
                             /\ pc' = "done"

\* The frame of the filter operation is dropped.
FilterReturn ==
    /\ DropFrame
    /\ filter_number' = 0 /\ wait' = FALSE /\ max_wait' = 0
    /\ remaining' = 0 /\ status' = None
    /\ UNCHANGED <<sessVars, fpVars, tsVars, current_filter_number>>

----------------------------------------------------------------------------
(* parse.FormParser.  A form of the parser is a sequence of entries        *)
(* [name, list, value]: value is <<text>> for a field and the list of      *)
(* allowed values for a '_<name>_values' key (list = TRUE).                *)

\* The tags html.parser hands to the handlers.  A missing attribute reads
\* as '' (defaultdict(str)); "checkbox" stands for any unsupported type.
FormNames == {"", "CameraSetup"}
Blank == [name |-> "", type |-> "", value |-> "", checked |-> FALSE]
FormTags == {[Blank EXCEPT !.name = n] : n \in FormNames}
RadioTags ==
    {[name |-> n, type |-> "radio", value |-> v, checked |-> c] :
        n \in {"CoolerState", "Fan"}, v \in {"0", "1"}, c \in BOOLEAN}
TextTags ==
    {[name |-> n, type |-> "text", value |-> "0", checked |-> FALSE] :
        n \in {"Bin", "CoolerState"}}
    \cup {[name |-> "Bin", type |-> "hidden", value |-> v,
           checked |-> FALSE] : v \in {"0", "1"}}
OtherInputs == {[Blank EXCEPT !.type = t] : t \in {"submit", "button",
                                                   "checkbox"}}
StartTags ==
    {[kind |-> "start", tag |-> "form", attrs |-> a] : a \in FormTags}
    \cup {[kind |-> "start", tag |-> "input", attrs |-> a] :
             a \in RadioTags \cup TextTags \cup OtherInputs}
    \cup {[kind |-> "start", tag |-> "table", attrs |-> Blank]}
EndTags == {[kind |-> "end", tag |-> t, attrs |-> Blank] :
               t \in {"form", "table"}}

HasForm(fs, name) == \E k \in 1..Len(fs) : fs[k].name = name
FormIdx(fs, name) == CHOOSE k \in 1..Len(fs) : fs[k].name = name
HasField(fields, name) == \E k \in 1..Len(fields) : fields[k].name = name
FieldIdx(fields, name) ==
    CHOOSE k \in 1..Len(fields) : fields[k].name = name
\* fields[name] = entry: in place when the key exists, else at the end
SetField(fields, item) ==
    IF HasField(fields, item.name)
    THEN [fields EXCEPT ![FieldIdx(fields, item.name)] = item]
    ELSE Append(fields, item)

FpError(what) == Raised("feed", "RuntimeError: Found " \o what, <<>>)

\* Faulty variant: a second form of the same name replaces the first.
DuplicateForm_Never(fs, name) == FALSE
\* line 46
DuplicateForm(fs, name) == HasForm(fs, name)

\* Faulty variant: submit and button inputs are skipped before the test.
Orphan_AfterType(f, itype) == f = None /\ itype \notin {"submit", "button"}
\* line 54, whatever the type of the input
Orphan(f, itype) == f = None

\* line 57
BadType(itype) ==
    itype \notin {"radio", "text", "hidden", "submit", "button"}

\* Faulty variant: the name is looked up in every form of the document.
DuplicateInput_AnyForm(fields, name) ==
    \E k \in 1..Len(forms) : HasField(forms[k].fields, name)
\* line 64
DuplicateInput(fields, name) == HasField(fields, name)

\* Faulty variant: a later checked occurrence replaces the selected value.
DuplicateChecked_Never(fields, name) == FALSE
\* line 77
DuplicateChecked(fields, name) == HasField(fields, name)

\* lines 70-74: the allowed values of a radio field
WithValue(fields, name, value) ==
    LET key == "_" \o name \o "_values"
    IN IF ~HasField(fields, key)
       THEN Append(fields, [name |-> key, list |-> TRUE,
                            value |-> <<value>>])
       ELSE [fields EXCEPT ![FieldIdx(fields, key)].value =
                                Append(@, value)]

FpFail(what) ==
    /\ pc' = "done" /\ result' = FpError(what)
    /\ UNCHANGED <<forms, self_form, form_name>>
FpFields(fields) ==
    /\ forms' = [forms EXCEPT ![FormIdx(forms, self_form[1])].fields =
                                  fields]
    /\ UNCHANGED <<pc, result, self_form, form_name>>

\* FormParser.handle_starttag, lines 41-80
HandleStarttag(t) ==
    /\ pc = "fp_feed" /\ Len(doc) < MaxTags
    /\ doc' = Append(doc, t)
    /\ UNCHANGED <<camVars, slotVars, devVars, last, entry, reqs, printed,
                   wsVars, teVars, inVars, before, sessVars, auxVars>>
    /\ LET a == t.attrs
           fields == forms[FormIdx(forms, self_form[1])].fields
       IN IF t.tag = "form"
          THEN IF DuplicateForm(forms, a.name)
               THEN FpFail("duplicate form")
               ELSE /\ forms' = SetField(forms, [name |-> a.name,
                                                 fields |-> <<>>])
                    /\ self_form' = <<a.name>>
                    /\ form_name' = <<a.name>>
                    /\ UNCHANGED <<pc, result>>
          ELSE IF t.tag # "input"
          THEN UNCHANGED <<pc, result, forms, self_form, form_name>>
          ELSE IF Orphan(self_form, a.type)
          THEN FpFail("orphan form input")
          ELSE IF BadType(a.type)
          THEN FpFail("bad input type")
          ELSE IF a.type \in {"submit", "button"}
          THEN UNCHANGED <<pc, result, forms, self_form, form_name>>
          ELSE IF a.type \in {"text", "hidden"}
          THEN IF DuplicateInput(fields, a.name)
               THEN FpFail("duplicate input")
               ELSE FpFields(SetField(fields, [name |-> a.name,
                                               list |-> FALSE,
                                               value |-> <<a.value>>]))
          ELSE LET withValue == WithValue(fields, a.name, a.value)
               IN IF ~a.checked
                  THEN FpFields(withValue)
                  ELSE IF DuplicateChecked(withValue, a.name)
                  THEN FpFail("duplicate checked value")
                  ELSE FpFields(SetField(withValue,
                                         [name |-> a.name, list |-> FALSE,
                                          value |-> <<a.value>>]))

\* FormParser.handle_endtag, lines 82-85
HandleEndtag(t) ==
    /\ pc = "fp_feed" /\ Len(doc) < MaxTags
    /\ doc' = Append(doc, t)
    /\ IF t.tag = "form"
       THEN self_form' = None /\ form_name' = None
       ELSE UNCHANGED <<self_form, form_name>>
    /\ UNCHANGED <<camVars, slotVars, devVars, pc, result, last, entry, reqs,
                   printed, wsVars, teVars, inVars, before, sessVars, forms,
                   auxVars>>

\* camera.py line 62: feed returns at the end of the document
FeedReturns ==
    /\ pc = "fp_feed"
    /\ pc' = "done" /\ result' = Returned("feed", "None")
    /\ UNCHANGED <<camVars, slotVars, devVars, last, entry, reqs, printed,
                   wsVars, teVars, inVars, before, moreVars>>

----------------------------------------------------------------------------
(* calibrate.py run as a script: the three exposure loops *)

Loops == {"zero", "dark", "flat"}
NextLoop(l) ==
    CASE l = "zero" -> "dark" [] l = "dark" -> "flat" [] l = "flat" -> "end"
\* exptime=0., args.tdark, args.tflat (its default, 1 second, for both)
ExptimeOf(l) == IF l = "zero" THEN 0 ELSE 1
\* shutter_open: False for zero and dark, True for flat
ShutterOf(l) == l = "flat"
\* the loops leave timeout at its default, here one polling period
LoopTimeout == 1

\* lines 220-222, 228-230, 236-238: the loop calls take_exposure
LoopCall ==
    /\ loop \in Loops /\ iLoop < number[loop]
    /\ TakeExposureCall(ExptimeOf(loop), LoopTimeout, ShutterOf(loop), TRUE)

\* lines 220, 228, 236: the loop condition fails, the next loop starts
LoopNext ==
    /\ pc = "idle" /\ loop \in Loops /\ ~(iLoop < number[loop])
    /\ loop' = NextLoop(loop) /\ iLoop' = 0
    /\ UNCHANGED <<camVars, slotVars, devVars, pc, result, last, entry, reqs,
                   printed, wsVars, teVars, inVars, before, fpVars, auxVars,
                   number,
                   exposing>>

\* lines 222-223, 230-231, 238-239: take_exposure has returned, i is
\* incremented on True; an exception ends the script
LoopReturn ==
    /\ DropFrame
    /\ loop' = IF result.outcome = "raised" THEN "end" ELSE loop
    /\ iLoop' = IF result = Returned("take_exposure", "True")
                THEN iLoop + 1 ELSE iLoop
    /\ exposing' = IF \E k \in 1..Len(reqs) : reqs[k] = GetExposureQuery
                   THEN state # "0" ELSE exposing
    /\ UNCHANGED <<number, fpVars, auxVars>>

----------------------------------------------------------------------------
(* Specification of the setup writer and of start_exposure *)

vars == <<setup, exposure_config, devSetup, devK, devCount, pc, result,
          last, entry, reqs, printed, max_retries, verbose, kwargs, new_setup,
          query, attempts, verified, exptime, timeout, latchup_action,
          cooling, temperature_setpoint, cutoff, state, temp_history,
          pwr_history, now, ticks, detected, actionCalls, saved, network,
          filter_names, caller, caught, reboot, fan_setpoint, init_setpoint,
          num_temperature_samples, max_tavg_error, low_temperature_ok,
          history, before, loop, iLoop, number, exposing, forms, self_form,
          form_name, doc, clock, stamp, current_filter_number,
          filter_number, wait, max_wait, remaining, status>>

\* Camera.__init__ on a device in any configuration
Init ==
    /\ setup = None /\ exposure_config = None
    /\ network = None /\ filter_names = None
    /\ devSetup \in [SetupFieldSet -> DevStrs]
    /\ devK \in 0..MaxK
    /\ devCount = 0
    /\ pc = "idle" /\ last = "other"
    /\ result = NoResult /\ reqs = <<>> /\ printed = <<>>
    /\ NoFrame /\ NoSession /\ NoParser /\ NoAux

WriteSetup ==
    \E n \in -1..MaxRetries, vb \in BOOLEAN, kw \in WsKwargs :
        WriteSetupCall(n, vb, kw)

StartExposureOp == \E kw \in SeKwargs : StartExposureCall(kw)

Next ==
    WriteSetup \/ WsAttempt \/ WsReread \/ WsGiveUp \/ StartExposureOp
        \/ Return

Spec == Init /\ [][Next]_vars

----------------------------------------------------------------------------
(* Specification of the exposure sequencer: the camera has been set up by   *)
(* write_setup calls (or not at all) and the device answers arbitrarily.    *)

InitExposure ==
    /\ setup \in {None} \cup {SetupForm(d) : d \in [SetupFieldSet -> DevStrs]}
    /\ exposure_config = None
    /\ network = None /\ filter_names = None
    /\ devSetup \in [SetupFieldSet -> DevStrs]
    /\ setup # None => setup = SetupForm(devSetup)
    /\ devK = 0 /\ devCount = 0
    /\ pc = "idle" /\ last = "other"
    /\ result = NoResult /\ reqs = <<>> /\ printed = <<>>
    /\ NoFrame /\ NoSession /\ NoParser /\ NoAux

TakeExposure ==
    \E et \in 0..MaxExptime, to \in 0..MaxTimeout,
       shutter_open \in BOOLEAN, action \in BOOLEAN :
        TakeExposureCall(et, to, shutter_open, action)

NextExposure ==
    TakeExposure \/ TeTick \/ TeFinish \/ StartExposureOp \/ Return

SpecExposure == InitExposure /\ [][NextExposure]_vars

----------------------------------------------------------------------------
(* Specification of Camera.reboot: the slots hold what earlier operations  *)
(* left in them and the device answers arbitrarily.                         *)

InitReboot ==
    /\ devSetup \in [SetupFieldSet -> DevStrs]
    /\ setup \in {None, SetupForm(devSetup)}
    /\ exposure_config \in {None, ExposureForm}
    /\ network \in {None, NetworkForm}
    /\ filter_names \in {None, FilterForm}
    /\ devK = 0 /\ devCount = 0
    /\ pc = "idle" /\ last = "other"
    /\ result = NoResult /\ reqs = <<>> /\ printed = <<>>
    /\ NoFrame /\ NoSession /\ NoParser /\ NoAux

NextReboot == RebootCall \/ RebootSubmit \/ RebootSettle \/ Return

SpecReboot == InitReboot /\ [][NextReboot]_vars

----------------------------------------------------------------------------
(* Specification of the session cache: write_setup, start_exposure and     *)
(* reboot called in any order on a camera whose slots hold what earlier    *)
(* operations left in them.                                                 *)

\* write_setup is called with no retry or one, silent
NextCache ==
    (\E n \in 0..1, kw \in WsKwargs : WriteSetupCall(n, FALSE, kw))
        \/ WsAttempt \/ WsReread \/ WsGiveUp \/ StartExposureOp
        \/ RebootCall \/ RebootSubmit \/ RebootSettle \/ Return

SpecCache == InitReboot /\ [][NextCache]_vars

----------------------------------------------------------------------------
(* Specification of calibrate.initialize on a new Camera *)

Initialize ==
    \E rb \in BOOLEAN, fan \in FanVals, sp \in SetVals,
       n \in 0..MaxSamples, err \in ErrVals, low \in BOOLEAN :
        InitializeCall(rb, fan, sp, n, err, low)

InitInitialize ==
    /\ setup = None /\ exposure_config = None
    /\ network = None /\ filter_names = None
    /\ devSetup = [f \in SetupFieldSet |-> "0"]
    /\ devK = 0 /\ devCount = 0
    /\ pc = "idle" /\ last = "other"
    /\ result = NoResult /\ reqs = <<>> /\ printed = <<>>
    /\ NoFrame /\ NoSession /\ NoParser /\ NoAux

NextInitialize ==
    Initialize \/ RebootCall \/ RebootSubmit \/ RebootSettle \/ InFan
        \/ InCooler \/ InBin \/ InTick \/ Return

SpecInitialize == InitInitialize /\ [][NextInitialize]_vars

----------------------------------------------------------------------------
(* Specification of the calibrate script after init(): the last write_setup *)
(* of initialize verified, so the cached setup has the cooler on.           *)

InitSession ==
    /\ devSetup \in {d \in [SetupFieldSet -> DevStrs] :
                         /\ d["CoolerState"] = "1"
                         /\ d["CCDTemperatureSetpoint"] \in {"1", "1.0"}}
    /\ setup = SetupForm(devSetup)
    /\ exposure_config = None
    /\ network \in {None, NetworkForm} /\ filter_names = None
    /\ devK = 0 /\ devCount = 0
    /\ pc = "idle" /\ last = "other"
    /\ result = NoResult /\ reqs = <<>> /\ printed = <<>>
    /\ NoFrame /\ NoParser /\ NoAux
    /\ loop = "zero" /\ iLoop = 0 /\ exposing = FALSE
    /\ number \in [Loops -> 0..MaxExposures]

NextSession ==
    LoopCall \/ TeTick \/ TeFinish \/ LoopReturn \/ LoopNext

SpecSession == InitSession /\ [][NextSession]_vars

----------------------------------------------------------------------------
(* Specification of FormParser: a new parser is fed any document *)

InitParser ==
    /\ setup = None /\ exposure_config = None
    /\ network = None /\ filter_names = None
    /\ devSetup = [f \in SetupFieldSet |-> "0"]
    /\ devK = 0 /\ devCount = 0
    /\ pc = "fp_feed" /\ last = "other"
    /\ result = NoResult /\ reqs = <<>> /\ printed = <<>>
    /\ NoFrame /\ NoSession /\ NoParser /\ NoAux

Starttag == \E t \in StartTags : HandleStarttag(t)
Endtag == \E t \in EndTags : HandleEndtag(t)

NextParser == Starttag \/ Endtag \/ FeedReturns

SpecParser == InitParser /\ [][NextParser]_vars

----------------------------------------------------------------------------
(* Specification of the time stamp of start_exposure: the clock shows any   *)
(* microsecond of the first or of the last second of a minute.              *)

InitStamp ==
    /\ setup = None /\ exposure_config = None
    /\ network = None /\ filter_names = None
    /\ devSetup = [f \in SetupFieldSet |-> "0"]
    /\ devK = 0 /\ devCount = 0
    /\ pc = "se_stamp" /\ last = "other"
    /\ result = NoResult /\ reqs = <<>> /\ printed = <<>>
    /\ NoFrame /\ NoSession /\ NoParser
    /\ clock \in [second : {0, 59}, microsecond : 0..999999]
    /\ stamp = None
    /\ current_filter_number = None
    /\ filter_number = 0 /\ wait = FALSE /\ max_wait = 0 /\ remaining = 0
    /\ status = None

SpecStamp == InitStamp /\ [][MakeStamp]_vars

----------------------------------------------------------------------------
(* Specification of the filter wheel: a new Camera whose filter page and   *)
(* wheel answer arbitrarily.                                                *)

InitFilter ==
    /\ setup = None /\ exposure_config = None
    /\ network = None /\ filter_names = None
    /\ devSetup = [f \in SetupFieldSet |-> "0"]
    /\ devK = 0 /\ devCount = 0
    /\ pc = "idle" /\ last = "other"
    /\ result = NoResult /\ reqs = <<>> /\ printed = <<>>
    /\ NoFrame /\ NoSession /\ NoParser /\ NoAux

\* set_filter with a number that line 149 rejects or one that it accepts
SetFilter ==
    \E fn \in {0, 1, 2}, w \in BOOLEAN, mw \in 0..MaxWait :
        SetFilterCall(fn, w, mw)

NextFilter ==
    ReadFilterConfigCall \/ SetFilter \/ SetFilterPoll \/ FilterReturn

SpecFilter == InitFilter /\ [][NextFilter]_vars

----------------------------------------------------------------------------
(* Properties of the setup writer (checked under Spec) *)

Count(log, r) == Cardinality({i \in 1..Len(log) : log[i] = r})
WsOk == pc = "done" /\ result = Returned("write_setup", "None")
WsFailed == pc = "done" /\ result = VerifyError(max_retries)

\* C1: whenever write_setup returns normally, the form held in the setup
\* cache is the one read back by the last write request, and every
\* overridden field of it, converted to the type of the requested value,
\* equals the requested value.
C1_ReturnImpliesReadBackEqual ==
    WsOk =>
        /\ reqs # <<>> /\ reqs[Len(reqs)] = GetSetupQuery
        /\ setup = SetupForm(devSetup)
        /\ \A name \in DOMAIN kwargs :
              Convert(kwargs[name].t, Get(setup, name)) = kwargs[name]

\* C1 witness: a normal return where the temperature was requested as the
\* float 1.0 and read back as the text "1", after a retry.
C1_Witness ==
    /\ WsOk /\ attempts >= 2
    /\ "CCDTemperatureSetpoint" \in DOMAIN kwargs
    /\ "CoolerState" \in DOMAIN kwargs
    /\ Get(setup, "CCDTemperatureSetpoint") = "1"

\* C2: for max_retries = n >= 0 the write query is sent at most n + 1
\* times, and once an attempt has verified no step of the call sends
\* another request.
C2_AtMostNPlusOneWrites ==
    /\ [](max_retries >= 0 => Count(reqs, GetSetupQuery) <= max_retries + 1)
    /\ [][verified = "True" => (reqs' = reqs \/ pc' = "idle")]_vars

\* C2 witness: the write verified at the last of the n + 1 attempts, n >= 1.
C2_Witness ==
    /\ WsOk /\ max_retries >= 1
    /\ Count(reqs, GetSetupQuery) = max_retries + 1

\* The call is the first write_setup a dropping device receives: none of
\* its writes has been counted before the call.
FreshDrop == devK >= 1 /\ devCount = attempts % devK
WsEnded ==
    /\ pc = "done" /\ result.op = "write_setup"
    /\ max_retries >= 0
    /\ result.err # "ValueError: Invalid name"

\* C3 as stated: against a device that applies only every k-th write,
\* write_setup(max_retries = n) returns normally iff k <= n + 1 and
\* otherwise fails with the verification error.
C3_Original ==
    (WsEnded /\ FreshDrop /\ entry # "ValueError" /\ DOMAIN kwargs # {}) =>
        /\ WsOk <=> devK <= max_retries + 1
        /\ ~WsOk => WsFailed

\* C3 amended: the same, except that a call whose requested values the
\* device already held (as the read-back check compares them) returns
\* normally at its first attempt whatever k, the dropped write reading back
\* as verified; the texts the device holds are assumed to convert to the
\* requested types.
C3_DropEveryKth ==
    (WsEnded /\ FreshDrop /\ entry # "ValueError") =>
        /\ WsOk <=> (devK <= max_retries + 1 \/ entry = "True")
        /\ ~WsOk => WsFailed
        /\ (WsOk /\ entry = "True") => attempts = 1
        /\ (WsOk /\ entry = "False") => attempts = devK

\* C3 witness: k = 3 and max_retries = 3, a write that changes a value
\* returns normally at the third attempt.
C3_Witness ==
    /\ WsOk /\ FreshDrop /\ devK = 3 /\ max_retries = 3
    /\ entry = "False" /\ attempts = 3

\* C3, second case: k = 3 and max_retries = 1 fails with the verification
\* error.
C3_FailsForOneRetry ==
    /\ WsFailed /\ FreshDrop /\ devK = 3 /\ max_retries = 1
    /\ entry = "False"

InvalidName == "ValueError: Invalid name"
UnknownKey(kw, form) ==
    form # None /\ \E name \in DOMAIN kw : name \notin Names(form)
NoQuerySent(log) ==
    Count(log, GetSetupQuery) = 0 /\ Count(log, GetExposureQuery) = 0

\* C4: a call of write_setup or start_exposure with a keyword that is not
\* a field of the baseline form ends with the unknown-field error, has sent
\* no request with a query string, leaves the device's configuration as it
\* was and leaves every cache slot that was populated as it was.
C4_UnknownKeyFailsBeforeAnyQuery ==
    [][(/\ pc = "idle"
        /\ \/ /\ pc' = "ws_loop" \/ result'.op = "write_setup"
              /\ UnknownKey(kwargs', setup')
           \/ /\ result'.op = "start_exposure"
              /\ UnknownKey(kwargs', exposure_config'))
       => /\ pc' = "done"
          /\ result'.err = InvalidName
          /\ NoQuerySent(reqs')
          /\ devSetup' = devSetup
          /\ setup # None => setup' = setup
          /\ exposure_config # None => exposure_config' = exposure_config]_vars

\* C4 witness: write_setup with an unknown keyword on a camera whose setup
\* was cached by an earlier write_setup: the error, and no request at all.
C4_Witness ==
    /\ pc = "done" /\ result.op = "write_setup" /\ result.err = InvalidName
    /\ BogusKey \in DOMAIN kwargs
    /\ last = "written" /\ reqs = <<>> /\ setup # None

\* The fields whose read-back text, converted, differs from what was written
MismatchIdx ==
    {i \in 1..Len(new_setup) :
        Convert(new_setup[i].value.t, Get(setup, new_setup[i].name))
            # new_setup[i].value}
FirstMismatchName ==
    new_setup[CHOOSE i \in MismatchIdx : \A j \in MismatchIdx : i <= j].name

\* C5 as stated: the error raised after the retries are exhausted
\* identifies the first mismatching field.
C5_Original ==
    WsFailed => \E i \in 1..Len(result.args) :
                    result.args[i] = FirstMismatchName

\* C5 amended: the error raised after the retries are exhausted carries
\* max_retries and no field name; the mismatching fields of the last
\* attempt are only printed, in form order (the first mismatching field
\* first), and only when verbose is set.
C5_ErrorCarriesRetriesOnly ==
    WsFailed =>
        /\ result.args = <<ToString(max_retries)>>
        /\ MismatchIdx # {}
        /\ verbose =>
              /\ Len(printed) = Cardinality(MismatchIdx)
              /\ printed[1].name = FirstMismatchName
              /\ {printed[j].name : j \in 1..Len(printed)}
                     = {new_setup[i].name : i \in MismatchIdx}
        /\ ~verbose => printed = <<>>

\* C5 witness: a verbose call fails with two mismatching fields.
C5_Witness ==
    WsFailed /\ verbose /\ Cardinality(MismatchIdx) = 2 /\ max_retries >= 1

\* C6 as stated: after a successful write_setup the setup slot is empty.
C6_Original == WsOk => setup = None

\* C6 amended: after a successful write_setup the setup slot is not
\* emptied: it holds the form read back by the verified attempt, and the
\* next write_setup builds its query from that cached form without
\* fetching the setup page.
C6_CacheHoldsReadBack ==
    /\ [](WsOk => (setup # None /\ setup = SetupForm(devSetup)))
    /\ [][(/\ pc = "idle" /\ last = "written"
           /\ pc' = "ws_loop" \/ result'.op = "write_setup")
          => (reqs' = <<>> /\ setup' = setup)]_vars

\* C6 witness: a write_setup entered after a successful one has built its
\* query and sent nothing.
C6_Witness ==
    /\ pc = "ws_loop" /\ last = "written" /\ attempts = 0 /\ reqs = <<>>
    /\ new_setup = Params(setup, kwargs)

----------------------------------------------------------------------------
(* Properties of the exposure sequencer (checked under SpecExposure) *)

LoopExited == pc = "te_after" \/ (pc = "te_loop" /\ ~(now < cutoff))
PollSet == {ApiTemp, ApiPwr, ApiState}
PollCount(log) == Cardinality({i \in 1..Len(log) : log[i] \in PollSet})
TeDone == pc = "done" /\ result.op = "take_exposure"
TeIdle == TeDone /\ state = "0"

\* C7: when the monitoring loop is left with a last observed state other
\* than "0" (also when no poll of the state ever succeeded), take_exposure
\* returns False, does not fetch the image and does not invoke
\* latchup_action.
C7_NotIdleReturnsFalse ==
    [][(LoopExited /\ state # "0" /\ pc' = "done")
       => /\ result' = Returned("take_exposure", "False")
          /\ Count(reqs', GetImage) = 0
          /\ actionCalls' = 0 /\ ~saved']_vars

\* C8: monitoring ends at the first tick whose poll of the state returns
\* "0": that step leaves the loop, and afterwards the call starts no tick
\* and sends no poll; in particular Idle at tick 2 ends the monitoring at
\* tick 2, before the deadline.
C8_IdleEndsMonitoring ==
    [][/\ (pc = "te_loop" /\ state' = "0") => pc' = "te_after"
       /\ state = "0" =>
             \/ pc' = "idle"
             \/ ticks' = ticks /\ PollCount(reqs') = PollCount(reqs)]_vars

\* C8 witness: the device reported Idle at tick 2 of a window of 3 seconds:
\* the call ended after 2 ticks and 1 second.
C8_Witness ==
    /\ TeIdle /\ ticks = 2 /\ cutoff = 3 /\ now = 1
    /\ Count(reqs, ApiState) = 2

\* C9: once the monitoring ended in state "0", the exposure is classified
\* as a cooling latchup iff cooling is enabled, some power sample equals 100
\* and every temperature sample, hence the minimum, is strictly greater
\* than setpoint + 2.
C9_LatchupIff ==
    TeIdle =>
        (detected <=>
            /\ cooling
            /\ \E i \in 1..Len(pwr_history) : pwr_history[i] = 100
            /\ \A i \in 1..Len(temp_history) :
                  temp_history[i] > temperature_setpoint + 2)

\* C9 witness: every power sample is 100 and the minimum temperature is
\* setpoint + 3: a latchup.
C9_Witness ==
    /\ TeIdle /\ detected /\ Len(temp_history) >= 2
    /\ \A i \in 1..Len(pwr_history) : pwr_history[i] = 100
    /\ Min(temp_history) = temperature_setpoint + 3

\* C10: when a latchup is detected and a latchup_action was given, the
\* action is invoked exactly once, the image is not fetched and False is
\* returned; when latchup_action is None the latchup is ignored: the image
\* is fetched and saved, and True returned, as for a completed exposure
\* (a failing fetch raises as it does there).
C10_LatchupAction ==
    (TeIdle /\ detected) =>
        IF latchup_action
        THEN /\ actionCalls = 1
             /\ Count(reqs, GetImage) = 0 /\ ~saved
             /\ result = Returned("take_exposure", "False")
        ELSE /\ actionCalls = 0
             /\ Count(reqs, GetImage) = 1 /\ reqs[Len(reqs)] = GetImage
             /\ \/ saved /\ result = Returned("take_exposure", "True")
                \/ ~saved /\ result = TransportError("take_exposure")

\* C10 witness: a latchup with an action: invoked once, nothing fetched.
C10_Witness ==
    /\ TeIdle /\ detected /\ latchup_action /\ actionCalls = 1
    /\ result = Returned("take_exposure", "False")

\* C11: take_exposure returns True exactly when the image was fetched and
\* written during the call: a call that returned False sent no image
\* request, and a call that returned True sent exactly one, as its last
\* request, after a poll of the state had answered "0".
C11_TrueIffSaved ==
    TeDone =>
        /\ result = Returned("take_exposure", "True") <=> saved
        /\ result = Returned("take_exposure", "False") =>
              Count(reqs, GetImage) = 0
        /\ result = Returned("take_exposure", "True") =>
              /\ Count(reqs, GetImage) = 1
              /\ reqs[Len(reqs)] = GetImage
              /\ state = "0"
              /\ reqs[Len(reqs) - 1] = ApiState

\* C11 witness: True returned after the device answered Idle at tick 2.
C11_Witness ==
    /\ TeDone /\ result = Returned("take_exposure", "True") /\ saved
    /\ ticks = 2 /\ Count(reqs, GetImage) = 1

----------------------------------------------------------------------------
(* Properties of Camera.reboot (checked under SpecReboot) *)

RbDone == pc = "done" /\ result.op = "reboot"
TimedOut == caught # <<>> /\ caught[Len(caught)] = TransportError("reboot")
Tail3(log) == SubSeq(log, Len(log) - 2, Len(log))

\* C14: when the resubmission of the network form fails with a transport
\* error, reboot sleeps the settle delay and then requests the info page,
\* once; the step that requests it ends the call, with the error of the
\* fetch when it failed, and the call sends nothing afterwards.
C14_SettleThenOneInfoFetch ==
    /\ [][(pc = "rb_submit" /\ TimedOut')
          => (pc' = "rb_settle"
              /\ reqs' = reqs \o <<GetNetworkQuery, Sleep5>>)]_vars
    /\ [][pc = "rb_settle"
          => (/\ pc' = "done"
              /\ reqs' = Append(reqs, GetInfo)
              /\ result' \in {Returned("reboot", "None"),
                              TransportError("reboot"),
                              Raised("reboot", "AssertionError", <<>>)})]_vars
    /\ []((RbDone /\ TimedOut) =>
            /\ Count(reqs, GetInfo) = 1 /\ Count(reqs, Sleep5) = 1
            /\ Count(reqs, GetNetworkQuery) = 1
            /\ Tail3(reqs) = <<GetNetworkQuery, Sleep5, GetInfo>>)

\* C14 witness: the resubmission timed out and the info page could not be
\* fetched afterwards: reboot raised that failure.
C14_Witness ==
    /\ RbDone /\ TimedOut /\ result = TransportError("reboot")
    /\ Tail3(reqs) = <<GetNetworkQuery, Sleep5, GetInfo>>

InfoFetched ==
    /\ result = Returned("reboot", "None")
    /\ reqs # <<>> /\ reqs[Len(reqs)] = GetInfo

\* C15: reboot empties the network slot when and only when the fetch of
\* the info page after the reboot succeeded; in every other outcome the
\* four cache slots hold what they held when reboot was entered.
C15_NetworkClearedIffInfoOk ==
    RbDone =>
        /\ InfoFetched => network = None
        /\ ~InfoFetched => Slots = before
        /\ InfoFetched => <<setup, exposure_config, filter_names>>
                             = <<before[1], before[3], before[4]>>

----------------------------------------------------------------------------
(* Properties of calibrate.initialize (checked under SpecInitialize) *)

InReturned == pc = "done" /\ result = Returned("initialize", "None")
Prefix(h, k) == SubSeq(h, 1, k)
\* The criterion on the mean of the last n readings of h, for n >= 1:
\* |mean - setpoint| < max_tavg_error, or mean < setpoint when
\* low_temperature_ok; the mean is Sum / n.
LastN(h, n) == [j \in 1..n |-> h[Len(h) - n + j]]
Criterion(h) ==
    LET n == num_temperature_samples
        total == Sum(LastN(h, n))
        sp == init_setpoint[1]
    IN \/ Abs(total - n * sp) < n * max_tavg_error
       \/ low_temperature_ok /\ total < n * sp

\* C12: for num_samples >= 1 the cooldown loop returns at the first tick
\* k >= num_samples at which the mean of the last num_samples readings is
\* within max_avg_error of the setpoint or, with low_temp_ok, below the
\* setpoint: a tick returns iff the criterion holds at it, so no earlier
\* tick met it and a sequence that never meets it never returns.
C12_ReturnsAtFirstReach ==
    /\ [][(pc = "in_cooldown" /\ history' # history
           /\ num_temperature_samples >= 1)
          => (InReturned' <=>
                 /\ Len(history') >= num_temperature_samples
                 /\ Criterion(history'))]_vars
    /\ []((pc = "in_cooldown" \/ InReturned) /\ num_temperature_samples >= 1
          => \A k \in num_temperature_samples..Len(history) :
                Criterion(Prefix(history, k))
                    <=> (InReturned /\ k = Len(history)))

\* C12 witness: with 2 samples and low_temp_ok unset the loop ran over a
\* mean of exactly setpoint - max_avg_error and returned at reading 4.
C12_Witness ==
    /\ InReturned /\ num_temperature_samples = 2 /\ ~low_temperature_ok
    /\ Len(history) = 4
    /\ history[1] + history[2] = 2 * (init_setpoint[1] - max_tavg_error)

\* C13: the cooldown loop does not return while fewer than num_samples
\* readings exist, whatever the readings are.
C13_NoReachBeforeNumSamples ==
    [][(pc = "in_cooldown" /\ history' # history
        /\ Len(history') < num_temperature_samples)
       => pc' = "in_cooldown"]_vars

\* C13 witness: two readings equal to the setpoint, three samples asked,
\* and the loop still runs.
C13_Witness ==
    /\ pc = "in_cooldown" /\ num_temperature_samples = 3
    /\ Len(history) = 2
    /\ \A j \in 1..2 : history[j] = init_setpoint[1]

\* C16: no operation catches and discards a parse error or a verification
\* failure: a FormParser error inside reboot, and the verification error
\* of a write_setup called by initialize, end the enclosing operation and
\* reach its caller.
C16_ParseAndVerifyErrorsSurface ==
    \A j \in 1..Len(caught) :
        caught[j] \notin {ParseError("reboot"), VerifyError(0)}

----------------------------------------------------------------------------
(* Properties of the calibrate script (checked under SpecSession) *)

StartSent(log) == \E k \in 1..Len(log) : log[k] = GetExposureQuery

\* C17: the exposure loops never start an exposure over another one: when
\* a take_exposure call of the loops sends its start request, every
\* exposure started before has been followed by an observation of the
\* state "0" (the script never aborts an exposure).
C17_NoOverlappingExposures ==
    [][(pc = "idle" /\ StartSent(reqs')) => ~exposing]_vars

----------------------------------------------------------------------------
(* Properties of FormParser (checked under SpecParser), stated on the      *)
(* document fed so far.                                                     *)

IsFormStart(t) == t.kind = "start" /\ t.tag = "form"
IsFormEnd(t) == t.kind = "end" /\ t.tag = "form"
IsInput(t) == t.kind = "start" /\ t.tag = "input"
IsRadio(t, n) == IsInput(t) /\ t.attrs.type = "radio" /\ t.attrs.name = n
\* The form open when tag k of d is met: the name of the last form start
\* tag before k, unless a form end tag came after it.
OpenAt(d, k) ==
    LET marks == {j \in 1..(k - 1) : IsFormStart(d[j]) \/ IsFormEnd(d[j])}
    IN IF marks = {} THEN None
       ELSE LET m == CHOOSE j \in marks : \A x \in marks : x <= j
            IN IF IsFormStart(d[m]) THEN <<d[m].attrs.name>> ELSE None
FpFailed == pc = "done" /\ result.outcome = "raised"
FpCompleted == pc = "done" /\ result = Returned("feed", "None")

\* C18: a document in which a form start tag carries the name of an
\* earlier form start tag (no name attribute reading as the same name)
\* makes the parser fail: it never completes with a forms mapping.
C18_DuplicateFormFails ==
    (\E a, b \in 1..Len(doc) :
        /\ a < b /\ IsFormStart(doc[a]) /\ IsFormStart(doc[b])
        /\ doc[a].attrs.name = doc[b].attrs.name)
    => FpFailed

\* C18 witness: two forms without a name, the first one closed.
C18_Witness ==
    /\ FpFailed /\ result = FpError("duplicate form") /\ Len(doc) = 3
    /\ IsFormStart(doc[1]) /\ IsFormEnd(doc[2]) /\ IsFormStart(doc[3])
    /\ doc[1].attrs.name = "" /\ doc[3].attrs.name = ""

\* C19: an input met while no form is open, before the first form or
\* after a form end tag, makes the parser fail whatever its type; and a
\* form end tag leaves the parser with no open form.
C19_OrphanInputFails ==
    /\ []((\E k \in 1..Len(doc) : IsInput(doc[k]) /\ OpenAt(doc, k) = None)
            => FpFailed)
    /\ [][(doc' # doc /\ IsFormEnd(doc'[Len(doc')]))
          => (self_form' = None /\ form_name' = None)]_vars

\* C19 witness: a button after the end tag of the only form.
C19_Witness ==
    /\ FpFailed /\ result = FpError("orphan form input") /\ Len(doc) = 3
    /\ IsFormStart(doc[1]) /\ IsFormEnd(doc[2])
    /\ IsInput(doc[3]) /\ doc[3].attrs.type = "button"

RECURSIVE Ascending(_)
Ascending(ks) ==
    IF ks = {} THEN <<>>
    ELSE LET m == CHOOSE x \in ks : \A y \in ks : x <= y
         IN <<m>> \o Ascending(ks \ {m})
RadioNames == {"CoolerState", "Fan"}
Occurrences(d, f, n) ==
    {k \in 1..Len(d) : IsRadio(d[k], n) /\ OpenAt(d, k) = <<f>>}
Checked20(d, f, n) == {k \in Occurrences(d, f, n) : d[k].attrs.checked}
FieldOf(f, name) ==
    LET fields == forms[FormIdx(forms, f)].fields
    IN fields[FieldIdx(fields, name)]

\* C20: as long as the parser has not failed, each radio field of a form
\* has its allowed values recorded, one per occurrence in document order,
\* and its selected value is the value of the occurrence marked checked;
\* a second checked occurrence of a field in a form makes the parser fail.
C20_RadioValuesAndChecked ==
    \A f \in FormNames, n \in RadioNames :
        LET occ == Ascending(Occurrences(doc, f, n))
            chk == Checked20(doc, f, n)
        IN /\ Cardinality(chk) >= 2 => FpFailed
           /\ (~FpFailed /\ occ # <<>>) =>
                 /\ FieldOf(f, "_" \o n \o "_values").value
                        = [j \in 1..Len(occ) |-> doc[occ[j]].attrs.value]
                 /\ \A k \in chk :
                       FieldOf(f, n).value = <<doc[k].attrs.value>>

\* C20 witness: Fan offered as 1 and then 0, the second one checked.
C20_Witness ==
    /\ FpCompleted /\ Len(doc) = 4
    /\ HasForm(forms, "CameraSetup")
    /\ Occurrences(doc, "CameraSetup", "Fan") = {2, 3}
    /\ FieldOf("CameraSetup", "_Fan_values").value = <<"1", "0">>
    /\ Checked20(doc, "CameraSetup", "Fan") = {3}
    /\ FieldOf("CameraSetup", "Fan").value = <<"0">>

IsText(t) == IsInput(t) /\ t.attrs.type \in {"text", "hidden"}
OpenFields == forms[FormIdx(forms, self_form[1])].fields

\* C21: a text or hidden input met in an open form makes the parser fail
\* iff its name is already a key of that form; otherwise its value is
\* stored under its name as it is, so that as long as the parser has not
\* failed every text or hidden input of the document is found in its own
\* form with its own value, also when another form has the same name.
C21_DuplicateTextFails ==
    /\ [][(pc = "fp_feed" /\ doc' # doc /\ IsText(doc'[Len(doc')])
           /\ self_form # None)
          => (FpFailed' <=>
                 HasField(OpenFields, doc'[Len(doc')].attrs.name))]_vars
    /\ [](\A a, b \in 1..Len(doc) :
             (/\ a < b /\ IsText(doc[a]) /\ IsText(doc[b])
              /\ doc[a].attrs.name = doc[b].attrs.name
              /\ OpenAt(doc, a) # None /\ OpenAt(doc, a) = OpenAt(doc, b))
             => FpFailed)
    /\ [](~FpFailed =>
            \A k \in 1..Len(doc) :
                IsText(doc[k]) =>
                    LET stored == FieldOf(OpenAt(doc, k)[1],
                                          doc[k].attrs.name)
                    IN ~stored.list
                       /\ stored.value = <<doc[k].attrs.value>>)

\* C21 witness: Bin is a text input of the first form and a hidden input
\* of the second, with different values, and the document is accepted.
C21_Witness ==
    /\ FpCompleted /\ Len(doc) = 4
    /\ IsText(doc[2]) /\ doc[2].attrs.name = "Bin" /\ OpenAt(doc, 2) = <<"">>
    /\ IsText(doc[4]) /\ doc[4].attrs.name = "Bin"
    /\ OpenAt(doc, 4) = <<"CameraSetup">>
    /\ FieldOf("", "Bin").value # FieldOf("CameraSetup", "Bin").value

----------------------------------------------------------------------------
(* Further properties of the setup writer (checked under Spec) *)

OverriddenEqual ==
    \A name \in DOMAIN kwargs :
        Convert(kwargs[name].t, Get(setup, name)) = kwargs[name]
\* The attempt just made was found unverified: the re-read is next.
Unverified == pc = "ws_reread"

\* C22 as stated: an attempt in which every overridden field reads back
\* equal to its requested value is verified, whatever the other fields
\* read back.
C22_Original == (Unverified /\ DOMAIN kwargs # {}) => ~OverriddenEqual

\* C22 amended: the verification compares every field sent in the query,
\* the overridden ones in the type of the requested value and the others
\* as the texts of the baseline form: an attempt is unverified iff some
\* field of the query reads back different, so a change of a
\* non-overridden field on the device makes write_setup retry or fail.
C22_VerifiesEveryField ==
    /\ Unverified => (MismatchIdx # {} /\ verified = "False")
    /\ WsOk =>
          /\ MismatchIdx = {}
          /\ \A k \in 1..Len(new_setup) :
                new_setup[k].name \notin DOMAIN kwargs =>
                    /\ new_setup[k].value.t = "str"
                    /\ Get(setup, new_setup[k].name) = new_setup[k].value.v
    /\ WsFailed => MismatchIdx # {}

\* C22 witness: the call failed although its overridden field read back as
\* requested: only a field it did not name differed.
C22_Witness ==
    /\ WsFailed /\ DOMAIN kwargs = {"CoolerState"} /\ OverriddenEqual
    /\ \A k \in MismatchIdx : new_setup[k].name \notin DOMAIN kwargs

\* The write_setup call has built its query and sent nothing yet: the
\* setup slot holds the baseline form.
QueryBuilt == pc = "ws_loop" /\ attempts = 0
SentFields(base) ==
    SelectSeq(base, LAMBDA e : e.name # "_CoolerState_values")

\* C23: the query built by _build_query has one item for every field of
\* the baseline form whose name does not start with an underscore, in the
\* order of the baseline; the item of an overridden field carries the
\* requested value as formatted, the item of any other field its baseline
\* text; the query is the same at every attempt of the call.
C23_QueryCoversBaseline ==
    /\ [](QueryBuilt =>
            LET base == SentFields(setup)
            IN /\ Len(query) = Len(base)
               /\ \A k \in 1..Len(query) :
                     /\ query[k].name = base[k].name
                     /\ query[k].value =
                            IF base[k].name \in DOMAIN kwargs
                            THEN kwargs[base[k].name].v
                            ELSE base[k].value)
    /\ [][(pc \in {"ws_loop", "ws_reread"}) => query' = query]_vars

\* C23 witness: the temperature is overridden by the float 1.0 where the
\* baseline has the text 1, the cooler state is sent as the baseline has it.
C23_Witness ==
    /\ QueryBuilt /\ DOMAIN kwargs = {"CCDTemperatureSetpoint"}
    /\ Get(setup, "CCDTemperatureSetpoint") = "1"
    /\ query = <<[name |-> "CoolerState",
                  value |-> Get(setup, "CoolerState")],
                 [name |-> "CCDTemperatureSetpoint", value |-> "1.0"]>>

----------------------------------------------------------------------------
(* Properties of the session cache (checked under SpecCache) *)

\* An operation is entered from the idle camera in this step.
Called(op) ==
    /\ pc = "idle" /\ pc' # "idle"
    /\ \/ result'.op = op
       \/ op = "write_setup" /\ pc' = "ws_loop"
       \/ op = "reboot" /\ pc' = "rb_submit"
FetchedNext(req) == \E k \in 1..Len(reqs') : reqs'[k] = req
CallFetches(op, slot, req) ==
    Called(op) =>
        /\ FetchedNext(req) <=> slot = None
        /\ slot # None => slot' = slot

\* C24: write_setup, start_exposure and reboot request their baseline form
\* from the device exactly when the slot of that form is empty at the call;
\* a populated slot is left as it is, and the query of write_setup is built
\* from the cached form.
C24_FetchIffSlotEmpty ==
    [][/\ CallFetches("write_setup", setup, GetSetup)
       /\ CallFetches("start_exposure", exposure_config, GetExposure)
       /\ CallFetches("reboot", network, GetNetwork)
       /\ (Called("write_setup") /\ setup # None /\ pc' = "ws_loop") =>
              Names(query') = Names(SentFields(setup))]_vars

\* C24 witness: reboot entered with a cached network form goes on to its
\* submission without a request, on a camera whose setup slot is empty.
C24_Witness ==
    /\ pc = "rb_submit" /\ reqs = <<>> /\ network = NetworkForm
    /\ before[2] = NetworkForm /\ setup = None

----------------------------------------------------------------------------
(* Failing polls of the exposure monitor (checked under SpecExposure) *)

\* This step is an iteration of the monitoring loop in which a poll raised.
FailedTick == pc = "te_loop" /\ Len(caught') = Len(caught) + 1
\* All the polls of the iteration were sent: the one that raised is the last.
StatePollFailed == Len(reqs') = Len(reqs) + Len(Polls(cooling))

\* C25 as stated: an iteration in which a poll fails appends no sample,
\* leaves the state unchanged and stays in the loop.
C25_Original ==
    [][FailedTick => /\ temp_history' = temp_history
                     /\ pwr_history' = pwr_history
                     /\ state' = state /\ pc' = "te_loop"]_vars

\* C25 (amended): an iteration in which a poll fails does not end
\* take_exposure and leaves the last observed state unchanged; it appends no
\* sample when the temperature or the power poll failed, and keeps the pair
\* of samples it has just appended when the state poll of a cooling camera
\* failed; the loop is left without an Idle answer only once the deadline has
\* passed.
C25_PollFailureSkipped ==
    /\ [][FailedTick =>
            /\ state' = state /\ pc' = "te_loop" /\ result' = NoResult
            /\ IF cooling /\ StatePollFailed
               THEN /\ Len(temp_history') = Len(temp_history) + 1
                    /\ Len(pwr_history') = Len(pwr_history) + 1
               ELSE /\ temp_history' = temp_history
                    /\ pwr_history' = pwr_history]_vars
    /\ [][(pc = "te_loop" /\ pc' = "done") => ~(now < cutoff)]_vars

\* C25 witness: the monitor has caught a failing poll and has gone on to
\* read the Idle state in a later iteration.
C25_Witness ==
    /\ pc = "te_after" /\ caught # <<>> /\ state = "0" /\ ticks > 1

\* take_exposure is monitoring, or has just left its loop.
InMonitor == pc \in {"te_loop", "te_after"}

\* C26: the monitoring loop of take_exposure runs at most exptime + timeout
\* iterations of one second whatever the polls answer, and once it has run
\* that many without leaving on an Idle answer the deadline has passed; the exposure has been started before
\* the loop whatever exptime is, and the deadline is exptime + timeout after
\* the start, timeout when exptime is 0.
C26_MonitoringBounded ==
    InMonitor =>
        /\ ticks <= exptime + timeout
        /\ cutoff = exptime + timeout
        /\ (pc = "te_loop" /\ ticks = exptime + timeout) => ~(now < cutoff)
        /\ \E k \in 1..Len(reqs) : reqs[k] = GetExposureQuery

\* C26 witness: an exposure of zero seconds has been started and monitored
\* for the whole of a timeout of more than one second without an Idle answer.
C26_Witness ==
    /\ pc = "te_loop" /\ exptime = 0 /\ timeout > 1 /\ ticks = timeout
    /\ state # "0"

\* take_exposure is entered from the idle script in this step.
TeEntered ==
    pc = "idle" /\ (pc' = "te_loop" \/ result'.op = "take_exposure")

\* C27: take_exposure called while the setup slot of the camera is empty
\* ends at once with the not-initialized error: it sends no request, starts
\* no exposure and leaves the slots as they are.
C27_UninitializedRaises ==
    [][(TeEntered /\ setup = None) =>
          /\ pc' = "done" /\ result' = NotInitializedError
          /\ reqs' = <<>>
          /\ Slots' = Slots]_vars

\* C27 witness: take_exposure has raised the error on a camera without a
\* setup and nothing was sent.
C27_Witness ==
    /\ pc = "done" /\ result = NotInitializedError /\ setup = None
    /\ reqs = <<>> /\ exposure_config = None

----------------------------------------------------------------------------
(* The time stamp of start_exposure (checked under SpecStamp) *)

\* C28: the DateTime that start_exposure sends has the second of the clock
\* and, as its fraction, the milliseconds of the clock's microsecond rounded
\* down: the microsecond part sent is floor(us / 1000) * 1000.
C28_StampTruncated ==
    stamp # None =>
        stamp = <<DateMinute, ":">> \o Digits(clock.second, 2) \o <<".">>
                    \o Digits(clock.microsecond \div 1000, 3)

----------------------------------------------------------------------------
(* The filter wheel (checked under SpecFilter) *)

SetFilterReturned == pc = "done" /\ result = Returned("set_filter", "None")

\* C29: set_filter asked to wait for a positive max_wait returns normally
\* only if the latest of its polls reported Idle, a status beginning
\* with 0; a wheel still moving at the last poll makes it raise.
C29_ReturnsOnlyWhenIdle ==
    (SetFilterReturned /\ wait /\ max_wait > 0) =>
        /\ status # None
        /\ status[1] # <<>>
        /\ status[1][1] = "0"

\* C30: when set_filter has returned normally the filter_names slot holds
\* the form read from the device and current_filter_number is the number
\* asked for.
C30_SlotKeptBySetFilter ==
    SetFilterReturned =>
        /\ filter_names = FilterForm
        /\ current_filter_number = <<filter_number>>

----------------------------------------------------------------------------
(* The sample series of take_exposure (checked under SpecExposure) *)

\* take_exposure has started its exposure and has not returned to its caller.
TeRunning ==
    pc \in {"te_loop", "te_after"} \/ (pc = "done" /\ ticks > 0)
\* An iteration of the loop in which the temperature or the power read
\* raised: the state was not asked for.
ReadFailedTick ==
    /\ pc = "te_loop" /\ ticks' = ticks + 1
    /\ reqs'[Len(reqs')] # ApiState

\* C31: while take_exposure runs the temperature and the power series have
\* the same length, an iteration in which one of the two reads fails appends
\* to neither, both are empty when cooling is off, and both hold a sample
\* when cooling is on and the state read is Idle: the latchup test, which is
\* made only in that state, has a minimum temperature to compare.
C31_SeriesPaired ==
    /\ [](TeRunning =>
            /\ Len(temp_history) = Len(pwr_history)
            /\ ~cooling => temp_history = <<>> /\ pwr_history = <<>>
            /\ (cooling /\ state = "0") =>
                  temp_history # <<>> /\ pwr_history # <<>>)
    /\ [][ReadFailedTick =>
            temp_history' = temp_history /\ pwr_history' = pwr_history]_vars
    /\ [][(pc \in {"te_loop", "te_after"} /\ pc' = "done" /\ cooling
           /\ ~Unexpected(state) /\ result'.err # "IndexError") =>
            temp_history # <<>>]_vars

\* C31 witness: a cooling camera was found Idle at the second iteration,
\* after one in which the power read failed, and the latchup test was made
\* on the one pair of samples.
C31_Witness ==
    /\ pc = "done" /\ cooling /\ state = "0" /\ ticks = 2
    /\ Len(caught) = 1 /\ Len(temp_history) = 1 /\ Len(pwr_history) = 1
    /\ reqs[Len(reqs)] = GetImage

----------------------------------------------------------------------------
(* An answered resubmission (checked under SpecReboot) *)

\* The resubmission of this step raised nothing: no error is caught and
\* none leaves the call.
Answered ==
    pc = "rb_submit" /\ caught' = caught /\ result'.outcome # "raised"
\* reboot returned normally and caught no error on its way.
ReturnedUnrebooted ==
    RbDone /\ result = Returned("reboot", "None") /\ caught = <<>>

\* C32: when the resubmitted network form is answered with a page that
\* holds the form, reboot returns normally in that step: it does not sleep
\* and does not request the info page, the only request that sets
\* properties, and the cache slots hold what they held at the call, but for
\* a network slot that was empty and holds the form read at the start.
C32_AnsweredReturnsAtOnce ==
    /\ [][Answered =>
            /\ pc' = "done" /\ result' = Returned("reboot", "None")
            /\ reqs' = Append(reqs, GetNetworkQuery)
            /\ Slots' = Slots]_vars
    /\ [](ReturnedUnrebooted =>
            /\ reqs = (IF before[2] = None THEN <<GetNetwork>> ELSE <<>>)
                          \o <<GetNetworkQuery>>
            /\ Slots = <<before[1],
                         IF before[2] = None THEN NetworkForm ELSE before[2],
                         before[3], before[4]>>)

\* C32 witness: reboot has returned normally on a camera whose network slot
\* was empty, having sent the two network requests and nothing else.
C32_Witness ==
    /\ ReturnedUnrebooted /\ before[2] = None /\ network = NetworkForm
    /\ reqs = <<GetNetwork, GetNetworkQuery>>

====
